---- MODULE Spec2Model ----
(***************************************************************************)
(* Verification model of the DAP2 server "dars": the chunked variable      *)
(* streamer, the XDR packer, the DODS response of the dataset facade, the  *)
(* HDF5 dataset and the join-existing aggregation.                         *)
(*                                                                         *)
(* Each subsystem is a state machine of its own (SpecChunk, SpecDods,      *)
(* SpecData); the variables of the other subsystems stay at their          *)
(* idle value.  A data element is identified by its coordinate tuple in    *)
(* the variable it is read from, so that two byte streams are equal        *)
(* exactly when they hold the same elements in the same order.             *)
(***************************************************************************)
EXTENDS Integers, Sequences, FiniteSets, TLC

VARIABLES
    sv,     \* one stream_variable stream (src/src/nc/dods.rs)
    rq,     \* one .dods request to the facade (src/src/ncml/mod.rs, src/src/nc/dods.rs)
    h5,     \* one data request to an Hdf5Dataset (src/dars/src/hdf5/mod.rs)
    agg     \* one data request to an NcmlDataset (src/dars/src/ncml/mod.rs)

vars == <<sv, rq, h5, agg>>

(***************************************************************************)
(* Bounds of the model.                                                    *)
(***************************************************************************)
MaxRank == 3        \* most dimensions of a variable
MaxCount == 3       \* largest count of a hyperslab in one dimension
MaxIndex == 1       \* largest start of a hyperslab in its first dimension
MaxChunk == 6       \* largest chunk budget tried for stream_variable
MaxMembers == 3     \* most members of an aggregate
MaxN == 2           \* largest length of a member along the aggregation dimension
DimX == 3           \* size of the dimension X, which is never aggregated
DimT == 3           \* size of the dimension TIME of the single file
MaxProj == 2        \* most projections of a constraint
\* The chunk budget of stream_variable when it serves a request, scaled down
\* from 10 MiB so that a variable of the model takes several chunks.
CHUNK_SZ == 2
\* The largest value of the 32-bit length word, std::u32::MAX, scaled down to
\* keep the element counts that exceed it small.
U32_MAX == 7
\* The largest usize, scaled down; a subtraction below zero wraps around it.
USIZE_MAX == 15
MaxFiles == 3       \* most member files of an aggregate
MaxGroups == 2      \* most netcdf and scan tags of an aggregation
MaxRankVal == 1     \* largest first coordinate value of a member
MaxEvents == 1      \* most file events delivered to an aggregate
MaxDsz == 2         \* largest width in bytes of a coordinate value
MaxDdsProj == 2     \* most projections of the constraint of a .dds request
MaxReadErrors == 1  \* most failed reads inside the streams of one request

(***************************************************************************)
(* Sequences of numbers.                                                   *)
(***************************************************************************)
Min(a, b) == IF a < b THEN a ELSE b

RECURSIVE Product(_)
Product(s) == IF s = <<>> THEN 1 ELSE Head(s) * Product(Tail(s))

RECURSIVE Sum(_)
Sum(s) == IF s = <<>> THEN 0 ELSE Head(s) + Sum(Tail(s))

RECURSIVE Flatten(_)
Flatten(ss) == IF ss = <<>> THEN <<>> ELSE Head(ss) \o Flatten(Tail(ss))

\* The sequences of length n over the set S.
SeqsOf(S, n) == [1..n -> S]

(***************************************************************************)
(* The array library's read of a block: the elements of the block that     *)
(* starts at `start` and extends `count` in each dimension, in row-major   *)
(* order (the last dimension varies fastest).  A start vector shorter than *)
(* the count vector leaves the missing starts at 0.                        *)
(***************************************************************************)
RECURSIVE values_to(_, _)
values_to(start, count) ==
    IF count = <<>> THEN << <<>> >>
    ELSE LET s0 == IF start = <<>> THEN 0 ELSE Head(start)
             st == IF start = <<>> THEN <<>> ELSE Tail(start)
             inner == values_to(st, Tail(count))
             row(i) == [k \in 1..Len(inner) |-> <<s0 + i>> \o inner[k]]
         IN  Flatten([i \in 1..Head(count) |-> row(i - 1)])

(***************************************************************************)
(* stream_variable: the chunk walk.                                        *)
(***************************************************************************)
\* The scan accumulator n before dimension i is visited (the scan runs from
\* the last dimension to the first).
RECURSIVE scan_n(_, _, _)
scan_n(counts, chunk_sz, i) ==
    IF i = Len(counts) THEN 1
    ELSE LET n == scan_n(counts, chunk_sz, i + 1)
         IN  IF n >= chunk_sz THEN n
             ELSE n * Min(chunk_sz \div n, counts[i + 1])

jump_each_dimension(counts, chunk_sz) ==
    [i \in 1..Len(counts) |-> Min(chunk_sz, counts[i])]

jump(counts, chunk_sz) ==
    [i \in 1..Len(counts) |->
        LET n == scan_n(counts, chunk_sz, i)
        IN  IF n >= chunk_sz THEN 1 ELSE Min(chunk_sz \div n, counts[i])]

\* dim_sz[i]: the elements of one step of dimension i.
dim_sz(counts) ==
    [i \in 1..Len(counts) |-> Product(SubSeq(counts, i + 1, Len(counts)))]

mjump_unclamped(offset, jmp, counts) == jmp

mjump(offset, jmp, counts) ==
    [i \in 1..Len(counts) |->
        IF offset[i] + jmp[i] > counts[i] THEN counts[i] - offset[i] ELSE jmp[i]]

mind_without_offset(indices, offset) ==
    [i \in 1..Min(Len(indices), Len(offset)) |-> indices[i]]

\* indices.iter().zip(&offset): as long as the shorter of the two.
mind(indices, offset) ==
    [i \in 1..Min(Len(indices), Len(offset)) |-> indices[i] + offset[i]]

\* The carry loop: the offset of linear position `carry`, and what is left.
RECURSIVE carry_loop(_, _, _)
carry_loop(counts, carry, i) ==
    IF i = 0 THEN [offset |-> <<>>, carry |-> carry]
    ELSE LET r == carry_loop(counts, carry \div counts[i], i - 1)
         IN  [offset |-> Append(r.offset, carry % counts[i]), carry |-> r.carry]

linear(offset, counts) ==
    Sum([i \in 1..Len(counts) |-> offset[i] * dim_sz(counts)[i]])

Idle == [pc |-> "idle"]

\* The read of a block of a variable with dimension sizes `dims`: the library
\* refuses a start or count vector of another length than the rank and a block
\* that leaves the variable.
read_ok(dims, start, count) ==
    /\ Len(start) = Len(dims)
    /\ Len(count) = Len(dims)
    /\ \A i \in 1..Len(dims) : start[i] + count[i] <= dims[i]

\* The stream as stream_variable creates it: nothing is read yet.
stream_variable(dims, indices, counts, chunk) ==
    [pc |-> "loop", dims |-> dims, indices |-> indices, counts |-> counts,
     CHUNK_SZ |-> chunk, offset |-> [i \in 1..Len(counts) |-> 0], out |-> <<>>]

\* One poll of the stream: one turn of the loop, up to its yield.  The item is
\* the buffer read, or the error of the read, after which the stream is over.
stream_variable_poll(st) ==
    LET mj == mjump(st.offset, jump(st.counts, st.CHUNK_SZ), st.counts)
        jump_sz == Product(mj)
        mi == mind(st.indices, st.offset)
        nx == carry_loop(st.counts, linear(st.offset, st.counts) + jump_sz,
                         Len(st.counts))
    IN  IF ~read_ok(st.dims, mi, mj)
        THEN [item |-> [kind |-> "err", val |-> <<>>],
              st |-> [st EXCEPT !.pc = "done"]]
        ELSE [item |-> [kind |-> "data", val |-> values_to(mi, mj)],
              st |-> [st EXCEPT !.out = Append(@, values_to(mi, mj)),
                                !.offset = nx.offset,
                                !.pc = IF nx.carry > 0 THEN "done" ELSE "loop"]]

\* A slab (indices, counts) of a variable that holds it.
SvRequest(c, b, ch) ==
    LET indices == [i \in 1..Len(c) |-> b + i - 1]
    IN  stream_variable([i \in 1..Len(c) |-> indices[i] + c[i]], indices, c, ch)

SvRequests ==
    { SvRequest(c, b, ch) :
        c \in UNION {SeqsOf(1..MaxCount, n) : n \in 1..MaxRank},
        b \in 0..MaxIndex, ch \in 1..MaxChunk }

\* The consumer of a stream_variable stream pulls the next buffer.
StreamVariableStep ==
    /\ sv.pc = "loop"
    /\ rq = Idle
    /\ sv' = stream_variable_poll(sv).st
    /\ UNCHANGED <<rq, h5, agg>>

InitChunk ==
    /\ sv \in SvRequests
    /\ rq = Idle
    /\ h5 = Idle
    /\ agg = Idle

NextChunk == StreamVariableStep

SpecChunk == InitChunk /\ [][NextChunk]_vars

(***************************************************************************)
(* C2: when stream_variable has ended, the buffers it yielded, put end to   *)
(* end, are the row-major traversal of the slab (indices, counts) read in   *)
(* one piece, whatever the chunk budget was.                                *)
(***************************************************************************)
C2_ChunksConcatToSlab ==
    sv.pc = "done" => Flatten(sv.out) = values_to(sv.indices, sv.counts)

\* A slab of three dimensions, cut in more than two chunks, of which one is
\* clamped at the end of a dimension.
C2_Witness ==
    /\ sv.pc = "done"
    /\ Len(sv.counts) = 3
    /\ Len(sv.out) > 2
    /\ \E k \in 1..Len(sv.out) : Len(sv.out[k]) < Len(sv.out[1])

(***************************************************************************)
(* The variable of a constrained DDS that is handed to a dataset           *)
(* (dap2::dds::DdsVariableDetails) and the XDR length word.                *)
(***************************************************************************)
is_scalar(variable) == variable.dimensions = <<>>

len(variable) == Product(variable.counts)

\* `as u32`: the low 32 bits.
as_u32(n) == n % (U32_MAX + 1)

\* The length word, twice.
xdr_length(n) == [kind |-> "length", val |-> <<n, n>>]

Data(elements) == [kind |-> "data", val |-> elements]

Err(what) == [kind |-> "err", val |-> what]

\* A length word computed from the counts the first member can serve.
length_of_first_member(variable, members) ==
    IF ~is_scalar(variable) /\ (members = <<>> \/ variable.counts = <<>>)
    THEN <<xdr_length(as_u32(Product(variable.counts)))>>
    ELSE IF ~is_scalar(variable)
    THEN <<xdr_length(as_u32(Product(
             [variable.counts EXCEPT ![1] = Min(@, members[1])])))>>
    ELSE <<>>

\* `length`: the items the outer stream yields first.
length(variable, members) ==
    IF ~is_scalar(variable)
    THEN <<xdr_length(as_u32(len(variable)))>>
    ELSE <<>>

\* The staleness check of a data request: the file's mtime now against the
\* one recorded at open.
stale_never(modified, mtime) == FALSE

stale(modified, mtime) == mtime /= modified

\* What the facade sends before it polls the stream of a variable.
dods_head == <<"dds", "separator">>

(***************************************************************************)
(* Hdf5Dataset::variable.                                                  *)
(***************************************************************************)
\* The reader's stream of the slab: one buffer.
reader_stream(indices, counts) == Data(values_to(indices, counts))

\* idx.dataset(name): Some or None.
idx_dataset(name) == name = "v"

H5Variables ==
    { [name |-> nm, dimensions |-> [i \in 1..Len(c) |-> "d"],
       indices |-> [i \in 1..Len(c) |-> 0], counts |-> c] :
        nm \in {"v", "nope"}, c \in UNION {SeqsOf(1..MaxCount, n) : n \in 0..2} }

H5Request(variable) ==
    [pc |-> "call", modified |-> 0, mtime |-> 0, seen |-> 0, variable |-> variable,
     result |-> "none", sent |-> <<>>, out |-> <<>>]

\* The file is modified on disk.
H5Touch ==
    /\ h5.pc \in {"call", "dods", "length", "bytes"}
    /\ h5.mtime = h5.modified
    /\ h5' = [h5 EXCEPT !.mtime = @ + 1]
    /\ UNCHANGED <<sv, rq, agg>>

\* Hdf5Dataset::variable up to the stream it returns.
H5Variable ==
    /\ h5.pc = "call"
    /\ IF stale(h5.modified, h5.mtime)
       THEN h5' = [h5 EXCEPT !.seen = h5.mtime, !.pc = "done", !.result = "Stale"]
       ELSE IF ~idx_dataset(h5.variable.name)
       THEN h5' = [h5 EXCEPT !.seen = h5.mtime, !.pc = "done", !.result = "Err"]
       ELSE \/ h5' = [h5 EXCEPT !.seen = h5.mtime, !.pc = "dods", !.result = "Ok"]
            \* the index is not in the db, or does not deserialize
            \/ h5' = [h5 EXCEPT !.seen = h5.mtime, !.pc = "done", !.result = "Err"]
    /\ UNCHANGED <<sv, rq, agg>>

\* The facade, once the variable's stream is there: the DDS, the separator.
H5Dods ==
    /\ h5.pc = "dods"
    /\ h5' = [h5 EXCEPT !.sent = dods_head, !.pc = "length"]
    /\ UNCHANGED <<sv, rq, agg>>

\* The stream's first poll: the length word, if there is one.
H5Length ==
    /\ h5.pc = "length"
    /\ h5' = [h5 EXCEPT !.out = @ \o length(h5.variable, <<>>), !.pc = "bytes"]
    /\ UNCHANGED <<sv, rq, agg>>

\* The stream's later polls: the reader's bytes.
H5Bytes ==
    /\ h5.pc = "bytes"
    /\ h5' = [h5 EXCEPT
                !.out = Append(@, reader_stream(h5.variable.indices,
                                                h5.variable.counts)),
                !.pc = "done"]
    /\ UNCHANGED <<sv, rq, agg>>

(***************************************************************************)
(* NcmlDataset (join-existing aggregation along `dimension`).              *)
(***************************************************************************)
dimension == "D"

\* What an element of member m at local coordinates c is.
Element(m, c) == <<m>> \o c

\* NcmlMember::stream: the slab of member m, one buffer.
member_stream(m, mindices, mcounts) ==
    LET e == values_to(mindices, mcounts)
    IN  Data([k \in 1..Len(e) |-> Element(m, e[k])])

\* CoordinateVariable::from: the members' coordinate values, end to end.
coordinates(members) ==
    Flatten([m \in 1..Len(members) |->
                [k \in 1..members[m] |-> Element(m, <<k - 1>>)]])

\* The bytes of values of width dsz: byte b of element el.
to_bytes(elements, dsz) ==
    Flatten([k \in 1..Len(elements) |->
                [b \in 1..dsz |-> [el |-> elements[k], b |-> b]]])

\* A cache that holds the coordinate values of the first member only.
CoordinateVariable_from_first(members, dsz) ==
    [bytes |-> to_bytes([k \in 1..members[1] |-> Element(1, <<k - 1>>)], dsz),
     dsz |-> dsz]

\* CoordinateVariable::from: every member's coordinate dataset is read whole
\* and appended to the cache.
CoordinateVariable_from(members, dsz) ==
    [bytes |-> to_bytes(coordinates(members), dsz), dsz |-> dsz]

\* A slice that takes start and end for byte offsets.
coordinates_stream_unscaled(cv, indices, counts) ==
    IF ~(Len(indices) = 1 /\ Len(counts) = 1)
    THEN Err("coordinate dimension is always 1 dimension")
    ELSE IF indices[1] + counts[1] > Len(cv.bytes)
    THEN Err("slab out of range")
    ELSE Data(SubSeq(cv.bytes, indices[1] + 1, indices[1] + counts[1]))

\* CoordinateVariable::stream: the slice start..end of the cache.
coordinates_stream(cv, indices, counts) ==
    IF ~(Len(indices) = 1 /\ Len(counts) = 1)
    THEN Err("coordinate dimension is always 1 dimension")
    ELSE LET start == indices[1] * cv.dsz
             end == (indices[1] + counts[1]) * cv.dsz
         IN  IF ~(end <= Len(cv.bytes))
             THEN Err("slab out of range")
             ELSE Data(SubSeq(cv.bytes, start + 1, end))

\* The variables of the aggregate and the requests on them.
AggVariables(N) ==
    { [name |-> "D", dimensions |-> <<"D">>, indices |-> <<s>>, counts |-> <<c>>] :
        s \in 0..N, c \in 1..(N + 1) }
    \cup
    { [name |-> "V", dimensions |-> <<"D", "x">>,
       indices |-> <<s, x[1]>>, counts |-> <<c, x[2]>>] :
        s \in 0..N, c \in 1..(N + 1), x \in {<<0, DimX>>, <<DimX - 1, 1>>} }
    \cup
    { [name |-> "P", dimensions |-> <<"x">>,
       indices |-> <<x[1]>>, counts |-> <<x[2]>>] : x \in {<<0, DimX>>, <<DimX - 1, 1>>} }
    \cup
    { [name |-> "S", dimensions |-> <<>>, indices |-> <<>>, counts |-> <<>>] }
    \cup
    \* the coordinate asked for with no or with two hyperslabs
    { [name |-> "D", dimensions |-> <<"D">>, indices |-> <<>>, counts |-> <<>>],
      [name |-> "D", dimensions |-> <<"D">>, indices |-> <<0, 0>>, counts |-> <<1, 1>>] }
    \cup
    \* a variable whose second dimension is the joined one
    { [name |-> "W", dimensions |-> <<"x", "D">>,
       indices |-> <<0, s>>, counts |-> <<DimX, c>>] : s \in 0..1, c \in 1..2 }

AggMemberLists == UNION {SeqsOf(1..MaxN, k) : k \in 1..MaxMembers}

\* The sorted members of a dataset that is being opened, with an empty
\* cache for values of width dsz, and the call of variable that will follow.
AggRequest(members, variable, dsz) ==
    [pc |-> "open", members |-> members,
     coordinates |-> [bytes |-> <<>>, dsz |-> dsz],
     modified |-> 0, mtime |-> 0, seen |-> 0,
     variable |-> variable, abc |-> "none", result |-> "none", sent |-> <<>>,
     out |-> <<>>, reads |-> <<>>, mi |-> 1, member_start |-> 0]

\* A request whose outer range ends at most one past the joined dimension;
\* the width of the coordinate values varies for the requests that read them.
AggRequests ==
    { AggRequest(ms, v, dsz) :
        ms \in AggMemberLists, v \in AggVariables(MaxMembers * MaxN),
        dsz \in 1..MaxDsz }

AggInRange(a) ==
    /\ a.variable.name /= "D" => a.coordinates.dsz = 1
    /\ \/ a.variable.name \in {"P", "S", "W"}
       \/ a.variable.indices = <<>>
       \/ a.variable.indices[1] + a.variable.counts[1] <= Sum(a.members) + 1

\* NcmlDataset::open, from the sorted members on: the coordinate cache is
\* read, or a member has no dataset for the dimension or cannot be read.
AggOpen ==
    /\ agg.pc = "open"
    /\ \/ agg' = [agg EXCEPT
                    !.coordinates = CoordinateVariable_from(agg.members,
                                                            agg.coordinates.dsz),
                    !.pc = "call"]
       \/ agg' = [agg EXCEPT !.pc = "failed"]
    /\ UNCHANGED <<sv, rq, h5>>

\* The aggregate's file is modified on disk.
AggTouch ==
    /\ agg.pc \in {"call", "dods", "length", "bytes"}
    /\ agg.mtime = agg.modified
    /\ agg' = [agg EXCEPT !.mtime = @ + 1]
    /\ UNCHANGED <<sv, rq, h5>>

\* NcmlDataset::variable up to the stream it returns: the staleness check,
\* the length word, the choice among the three read paths.
AggVariable ==
    /\ agg.pc = "call"
    /\ LET v == agg.variable
           a == [agg EXCEPT !.seen = agg.mtime]
       IN
       IF stale(agg.modified, agg.mtime)
       THEN agg' = [a EXCEPT !.pc = "done", !.result = "Stale"]
       ELSE IF v.name = dimension
       THEN LET s == coordinates_stream(agg.coordinates, v.indices, v.counts) IN
            IF s.kind = "err"
            THEN agg' = [a EXCEPT !.pc = "done", !.result = "Err"]
            ELSE agg' = [a EXCEPT !.pc = "dods", !.result = "Ok", !.abc = "A"]
       ELSE IF (IF Len(v.dimensions) > 0 THEN v.dimensions[1] /= dimension ELSE TRUE)
       THEN \/ agg' = [a EXCEPT !.pc = "dods", !.result = "Ok", !.abc = "B"]
            \* self.members[0].stream(..).await? fails
            \/ agg' = [a EXCEPT !.pc = "done", !.result = "Err"]
       ELSE agg' = [a EXCEPT !.pc = "dods", !.result = "Ok", !.abc = "C"]
    /\ UNCHANGED <<sv, rq, h5>>

\* The facade, once the variable's stream is there: the DDS, the separator.
AggDods ==
    /\ agg.pc = "dods"
    /\ agg' = [agg EXCEPT !.sent = dods_head, !.pc = "length"]
    /\ UNCHANGED <<sv, rq, h5>>

\* The outer stream's first poll: the length word, if there is one.
AggLength ==
    /\ agg.pc = "length"
    /\ agg' = [agg EXCEPT !.out = @ \o length(agg.variable, agg.members),
                          !.pc = "bytes"]
    /\ UNCHANGED <<sv, rq, h5>>

\* Case A: the slice of the coordinate cache.
AggCoordinate ==
    /\ agg.pc = "bytes" /\ agg.abc = "A"
    /\ agg' = [agg EXCEPT
                 !.out = Append(@, coordinates_stream(agg.coordinates,
                                       agg.variable.indices, agg.variable.counts)),
                 !.pc = "done"]
    /\ UNCHANGED <<sv, rq, h5>>

\* Case B: the stream of the first member.
AggFirstMember ==
    /\ agg.pc = "bytes" /\ agg.abc = "B"
    /\ agg' = [agg EXCEPT
                 !.out = Append(@, member_stream(1, agg.variable.indices,
                                                 agg.variable.counts)),
                 !.reads = Append(@, [member |-> 1, mindices |-> agg.variable.indices,
                                      mcounts |-> agg.variable.counts]),
                 !.pc = "done"]
    /\ UNCHANGED <<sv, rq, h5>>

\* A walk that hands the first member it meets the whole request.
walk_unsplit(indices, counts, member_start, n) ==
    IF indices[1] >= member_start /\ indices[1] < member_start + n
    THEN [branch |-> "first",
          mindices |-> [indices EXCEPT ![1] = indices[1] - member_start],
          mcounts |-> counts]
    ELSE [branch |-> "skip"]

\* Case C: the branch of the walk taken for a member of length n.
walk(indices, counts, member_start, n) ==
    IF indices[1] >= member_start /\ indices[1] < member_start + n
    THEN [branch |-> "first",
          mindices |-> [indices EXCEPT ![1] = indices[1] - member_start],
          mcounts |-> [counts EXCEPT
                         ![1] = Min(counts[1], n - (indices[1] - member_start))]]
    ELSE IF indices[1] < member_start /\ member_start < indices[1] + counts[1]
    THEN [branch |-> "consecutive",
          mindices |-> [indices EXCEPT ![1] = 0],
          mcounts |-> [counts EXCEPT
                         ![1] = Min(indices[1] + counts[1] - member_start, n)]]
    ELSE IF indices[1] + counts[1] < member_start
    THEN [branch |-> "break"]
    ELSE [branch |-> "skip"]

\* The error items among the items of a stream.
ReadErrors(out) == Cardinality({k \in 1..Len(out) : out[k].kind = "err"})

\* Case C: one turn of the loop over the members.
AggMember ==
    /\ agg.pc = "bytes" /\ agg.abc = "C"
    /\ IF agg.mi > Len(agg.members)
       THEN agg' = [agg EXCEPT !.pc = "done"]
       ELSE LET n == agg.members[agg.mi]
                w == walk(agg.variable.indices, agg.variable.counts,
                          agg.member_start, n)
                next == [agg EXCEPT !.mi = @ + 1, !.member_start = @ + n]
            IN  IF w.branch \in {"first", "consecutive"}
                THEN \/ agg' = [next EXCEPT
                                  !.out = Append(@, member_stream(agg.mi, w.mindices,
                                                                  w.mcounts)),
                                  !.reads = Append(@, [member |-> agg.mi,
                                                       mindices |-> w.mindices,
                                                       mcounts |-> w.mcounts])]
                     \* m.stream(..).await? fails: the error is the last item
                     \/ agg' = [agg EXCEPT !.out = Append(@, Err("member")),
                                           !.pc = "done"]
                     \* the member's stream yields the error of its read: the
                     \* item is passed on and the loop goes to the next member
                     \/ /\ ReadErrors(agg.out) < MaxReadErrors
                        /\ agg' = [next EXCEPT !.out = Append(@, Err("read"))]
                ELSE IF w.branch = "break"
                THEN agg' = [agg EXCEPT !.pc = "done"]
                ELSE agg' = next
    /\ UNCHANGED <<sv, rq, h5>>

InitData ==
    /\ \/ agg \in {a \in AggRequests : AggInRange(a)} /\ h5 = Idle
       \/ h5 \in {H5Request(v) : v \in H5Variables} /\ agg = Idle
    /\ sv = Idle
    /\ rq = Idle

NextData ==
    \/ AggOpen
    \/ AggTouch
    \/ AggVariable
    \/ AggDods
    \/ AggLength
    \/ AggCoordinate
    \/ AggFirstMember
    \/ AggMember
    \/ H5Touch
    \/ H5Variable
    \/ H5Dods
    \/ H5Length
    \/ H5Bytes

SpecData == InitData /\ [][NextData]_vars

\* The global index along `dimension` of local index k of member m.
GlobalIndex(members, m, k) == Sum(SubSeq(members, 1, m - 1)) + k

\* The global indices a read covers, in the order it delivers them.
ReadCovers(members, r) ==
    [j \in 1..r.mcounts[1] |-> GlobalIndex(members, r.member, r.mindices[1] + j - 1)]

AggNoError == \A k \in 1..Len(agg.out) : agg.out[k].kind /= "err"

(***************************************************************************)
(* C1: when the walk over the members has ended for a request (start,      *)
(* count) on the joined dimension with count >= 1 and start + count <= N,  *)
(* the reads it issued, in the order issued, cover the global indices      *)
(* start .. start+count-1, each once and ascending; every read lies inside *)
(* its member and carries the request's index and count of the other       *)
(* dimensions unchanged.                                                   *)
(***************************************************************************)
C1_WalkCoversRequest ==
    (/\ agg.pc = "done" /\ agg.abc = "C" /\ AggNoError
     /\ agg.variable.indices[1] + agg.variable.counts[1] <= Sum(agg.members))
    => /\ Flatten([k \in 1..Len(agg.reads) |-> ReadCovers(agg.members, agg.reads[k])])
            = [j \in 1..agg.variable.counts[1] |-> agg.variable.indices[1] + j - 1]
       /\ \A k \in 1..Len(agg.reads) :
            /\ agg.reads[k].mcounts[1] >= 1
            /\ agg.reads[k].mindices[1] + agg.reads[k].mcounts[1]
                  <= agg.members[agg.reads[k].member]
            /\ Tail(agg.reads[k].mindices) = Tail(agg.variable.indices)
            /\ Tail(agg.reads[k].mcounts) = Tail(agg.variable.counts)
            /\ k > 1 => agg.reads[k].member > agg.reads[k - 1].member

\* A request that starts inside one member, runs over a whole member and ends
\* inside a third one.
C1_Witness ==
    /\ agg.pc = "done" /\ agg.abc = "C" /\ AggNoError
    /\ Len(agg.reads) = 3
    /\ agg.reads[1].mindices[1] > 0
    /\ agg.reads[3].mcounts[1] < agg.members[agg.reads[3].member]
    /\ agg.variable.indices[2] > 0


(***************************************************************************)
(* The single file `nc` behind the facade: its variables and dimensions.   *)
(***************************************************************************)
NcVariables == {"SST", "TIME", "X", "SCALAR"}

nc_dimensions(name) ==
    CASE name = "SST" -> <<"TIME", "X">>
      [] name = "TIME" -> <<"TIME">>
      [] name = "X" -> <<"X">>
      [] OTHER -> <<>>

dim_len(d) == IF d = "TIME" THEN DimT ELSE DimX

nc_dims(name) == [i \in 1..Len(nc_dimensions(name)) |-> dim_len(nc_dimensions(name)[i])]

\* nc.variable(name): Some or None.
nc_variable(name) == name \in NcVariables

(***************************************************************************)
(* A constraint, as the hyperslab parser hands it to NcDds::dds and to     *)
(* xdr: a projection is a name of one or two parts ("SST", "SST.TIME") and *)
(* the hyperslabs that follow it, each of one, two or three numbers; both  *)
(* callers receive three-number hyperslabs from the parser                 *)
(* (nc/dds.rs:21, nc/dods.rs:215).                                         *)
(***************************************************************************)
Single == <<0>>
Full(d) == <<0, d - 1>>
Offset(d) == <<1, d - 1>>
Stride(d) == <<0, 2, d - 1>>

Forms(d) == {Single, Full(d), Offset(d), Stride(d)}

Projections ==
    { [name |-> <<"SST">>, hyperslabs |-> h] :
        h \in {<<>>} \cup {<<t>> : t \in Forms(DimT)}
              \cup { <<Full(DimT), Full(DimX)>>, <<Single, Offset(DimX)>>,
                     <<Offset(DimT), Single>>, <<Stride(DimT), Full(DimX)>>,
                     <<Full(DimT), Stride(DimX)>> } }
    \cup { [name |-> <<"TIME">>, hyperslabs |-> h] :
             h \in {<<>>} \cup {<<t>> : t \in Forms(DimT)} }
    \cup { [name |-> <<"SCALAR">>, hyperslabs |-> h] : h \in {<<>>, <<Single>>} }
    \cup { [name |-> <<"SST", "TIME">>, hyperslabs |-> <<>>],
           [name |-> <<"NOPE">>, hyperslabs |-> <<>>] }

has_stride(v) == \E i \in 1..Len(v.hyperslabs) : Len(v.hyperslabs[i]) > 2

(***************************************************************************)
(* NcDds: the DDS of the file and its projection on a constraint.  A node  *)
(* of the DDS is held as a record, not as its text.                        *)
(***************************************************************************)
\* a - b on usize where overflow is not checked (a release build).
wrapping_sub(a, b) == IF a >= b THEN a - b ELSE a - b + USIZE_MAX + 1

NcDds_count_slab(slab) ==
    IF Len(slab) = 1 THEN 1
    ELSE IF Len(slab) = 2 THEN wrapping_sub(slab[2], slab[1])
    ELSE IF slab[2] = 0 THEN 0
    ELSE wrapping_sub(slab[3], slab[1] \div slab[2])

\* When NcDds::count_slab panics: a division by zero in any build, a
\* subtraction below zero in a build that checks overflow.
count_slab_panics(slab, checked) ==
    \/ Len(slab) > 3
    \/ Len(slab) = 3 /\ slab[2] = 0
    \/ checked /\ Len(slab) = 2 /\ slab[2] < slab[1]
    \/ checked /\ Len(slab) = 3 /\ slab[2] /= 0 /\ slab[3] < slab[1] \div slab[2]

\* slab.as_ref().and_then(|s| s.get(i)).unwrap_or(default); slab is <<>> for
\* None and <<counts>> for Some(counts).
slab_get(slab, i, default) ==
    IF slab /= <<>> /\ i <= Len(slab[1]) THEN slab[1][i] ELSE default

Node(kind, name, dims, maps) ==
    [kind |-> kind, name |-> name, dims |-> dims, maps |-> maps]

format_var(var, slab) ==
    IF Len(nc_dimensions(var)) >= 1
    THEN Node("Atomic", var,
              <<[name |-> nc_dimensions(var)[1],
                 size |-> slab_get(slab, 1, dim_len(nc_dimensions(var)[1]))]>>, <<>>)
    ELSE Node("Atomic", var, <<>>, <<>>)

all_dims(var, slab) ==
    [i \in 1..Len(nc_dimensions(var)) |->
        [name |-> nc_dimensions(var)[i],
         size |-> slab_get(slab, i, dim_len(nc_dimensions(var)[i]))]]

format_grid(var, slab) ==
    IF ~(\A i \in 1..Len(nc_dimensions(var)) : nc_variable(nc_dimensions(var)[i]))
    THEN Node("Atomic", var, all_dims(var, slab), <<>>)
    ELSE Node("Grid", var, all_dims(var, slab),
              [i \in 1..Len(nc_dimensions(var)) |->
                  format_var(nc_dimensions(var)[i], slab)])

format_struct(var, dim, slab) ==
    Node("Structure", var, <<>>, <<Node("Atomic", dim, all_dims(dim, slab), <<>>)>>)

\* NcDds::build: the map from "var" and "var.member" to the unconstrained
\* node; <<>> where the map has no such key.
NcDds_vars(name) ==
    IF Len(name) = 1
    THEN IF ~nc_variable(name[1]) THEN <<>>
         ELSE IF Len(nc_dimensions(name[1])) < 2 THEN <<format_var(name[1], <<>>)>>
         ELSE <<format_grid(name[1], <<>>)>>
    ELSE IF /\ nc_variable(name[1]) /\ Len(nc_dimensions(name[1])) >= 2
            /\ nc_variable(name[2])
            /\ \/ name[2] = name[1]
               \/ \E i \in 1..Len(nc_dimensions(name[1])) :
                     nc_dimensions(name[1])[i] = name[2]
    THEN <<format_struct(name[1], name[2], <<>>)>>
    ELSE <<>>

build_var(name, hyperslabs) ==
    LET slab == [i \in 1..Len(hyperslabs) |-> NcDds_count_slab(hyperslabs[i])]
    IN  IF Len(name) = 2
        THEN IF nc_variable(name[1]) /\ nc_variable(name[2])
             THEN <<format_struct(name[1], name[2], <<slab>>)>>
             ELSE <<>>
        ELSE IF nc_variable(name[1])
        THEN IF Len(nc_dimensions(name[1])) < 2
             THEN <<format_var(name[1], <<slab>>)>>
             ELSE <<format_grid(name[1], <<slab>>)>>
        ELSE <<>>

NcDds_dds_no_error(vs) ==
    [ok |-> TRUE,
     nodes |-> [k \in 1..Len(vs) |-> Node("Atomic", vs[k].name[1], <<>>, <<>>)]]

\* NcDds::dds on the projections vs: the nodes, or the error "variable not
\* found" when one projection gives None.
NcDds_dds(vs) ==
    LET nodes == [k \in 1..Len(vs) |->
                    IF vs[k].hyperslabs /= <<>>
                    THEN build_var(vs[k].name, vs[k].hyperslabs)
                    ELSE NcDds_vars(vs[k].name)]
    IN  IF \E k \in 1..Len(vs) : nodes[k] = <<>>
        THEN [ok |-> FALSE, nodes |-> <<>>]
        ELSE [ok |-> TRUE, nodes |-> [k \in 1..Len(vs) |-> nodes[k][1]]]

\* NcDds::dds panics: the projections are mapped one after the other up to
\* the first that gives None, and count_slab panics on one of those.
NcDds_dds_panics(vs, checked) ==
    \E k \in 1..Len(vs) :
       /\ \E i \in 1..Len(vs[k].hyperslabs) :
             count_slab_panics(vs[k].hyperslabs[i], checked)
       /\ \A j \in 1..(k - 1) :
             (IF vs[j].hyperslabs /= <<>>
              THEN build_var(vs[j].name, vs[j].hyperslabs)
              ELSE NcDds_vars(vs[j].name)) /= <<>>

\* parse_query of the facade: the constraint text either parses or does not.
parse_query(query) ==
    IF query.malformed THEN [ok |-> FALSE, vs |-> <<>>]
    ELSE [ok |-> TRUE, vs |-> query.vs]

(***************************************************************************)
(* The XDR packer.                                                         *)
(***************************************************************************)
\* XdrPack::pack: every value of the buffer in big-endian byte order.
pack(buf) == [k \in 1..Len(buf) |-> [be |-> buf[k]]]

\* hyperslab::count_slab, as xdr uses it for the slab it reads.
count_slab(slab) ==
    IF Len(slab) = 1 THEN 1
    ELSE IF Len(slab) = 2 THEN slab[2] - slab[1] + 1
    ELSE (slab[3] - slab[1]) \div slab[2] + 1

\* An item of the response body; var is the place in the constraint of the
\* projection the item belongs to (0: none).
Item(kind, var, val) == [kind |-> kind, var |-> var, val |-> val]

\* When encode_array raises its overflow error.
overflows(sz) == sz > U32_MAX

(***************************************************************************)
(* The .dods request: NcmlDataset::dods, then the body item by item, the   *)
(* variables' part as xdr, pack_var_impl, encode_array and stream_variable *)
(* produce it.                                                             *)
(***************************************************************************)
Queries ==
    { [malformed |-> m, vs |-> v] :
        m \in BOOLEAN, v \in UNION {SeqsOf(Projections, n) : n \in 1..MaxProj} }

DodsRequest(query) ==
    [pc |-> "dods", query |-> query, status |-> 0, dds |-> <<>>, body |-> <<>>,
     k |-> 1, indices |-> <<>>, counts |-> <<>>, len |-> <<>>, streamed |-> {}]

\* The status of the response, from what parse_query and dds returned.
preflight_status_swapped(parsed, projected) ==
    IF ~parsed THEN 404 ELSE IF ~projected THEN 422 ELSE 200

preflight_status(parsed, projected) ==
    IF ~parsed THEN 422 ELSE IF ~projected THEN 404 ELSE 200

\* NcmlDataset::dods: parse, project the DDS, build the body stream.
Dods ==
    /\ rq.pc = "dods"
    /\ LET q == parse_query(rq.query) IN
       IF ~q.ok
       THEN rq' = [rq EXCEPT !.pc = "done", !.status = preflight_status(FALSE, FALSE)]
       ELSE \E checked \in BOOLEAN :
            IF NcDds_dds_panics(q.vs, checked)
            THEN rq' = [rq EXCEPT !.pc = "panic"]
            ELSE LET d == NcDds_dds(q.vs) IN
                 IF ~d.ok
                 THEN rq' = [rq EXCEPT !.pc = "done",
                                       !.status = preflight_status(TRUE, FALSE)]
                 ELSE rq' = [rq EXCEPT !.pc = "dds",
                                       !.status = preflight_status(TRUE, TRUE),
                                       !.dds = <<d.nodes>>]
    /\ UNCHANGED <<sv, h5, agg>>

(***************************************************************************)
(* The .dds request: NcmlDataset::dds.                                     *)
(***************************************************************************)
\* Hyperslabs that run backwards, run past a dimension of size d, or have a
\* stride of zero.
Backwards == <<1, 0>>
Past(d) == <<0, d>>
ZeroStride(d) == <<0, 0, d - 1>>

DdsForms(d) == Forms(d) \cup {Backwards, Past(d), ZeroStride(d)}

DdsProjections ==
    Projections
    \cup { [name |-> <<"SST">>, hyperslabs |-> h] :
             h \in {<<t>> : t \in DdsForms(DimT)}
                   \cup {<<t, x>> : t \in {Single, Full(DimT), Offset(DimT)},
                                    x \in {Single, Full(DimX), Offset(DimX), Past(DimX)}} }
    \cup { [name |-> <<"TIME">>, hyperslabs |-> <<t>>] : t \in DdsForms(DimT) }
    \cup { [name |-> <<"SST", "TIME">>, hyperslabs |-> h] :
             h \in {<<Full(DimT)>>, <<Offset(DimT)>>} }
    \cup { [name |-> n, hyperslabs |-> h] :
             n \in {<<"SST", "SST">>, <<"SST", "SCALAR">>, <<"SST", "NOPE">>,
                    <<"TIME", "TIME">>, <<"NOPE">>},
             h \in {<<>>, <<Single>>} }

DdsQueries ==
    { [malformed |-> TRUE, vs |-> <<v>>] : v \in DdsProjections }
    \cup { [malformed |-> FALSE, vs |-> v] :
             v \in UNION {SeqsOf(DdsProjections, n) : n \in 1..MaxDdsProj} }

\* A .dds request streams no variable: its k stays 0.
DdsRequest(query) == [DodsRequest(query) EXCEPT !.pc = "dds_call", !.k = 0]

\* NcmlDataset::dds: parse, project the DDS, answer.
Dds ==
    /\ rq.pc = "dds_call"
    /\ LET q == parse_query(rq.query) IN
       IF ~q.ok
       THEN rq' = [rq EXCEPT !.pc = "done", !.status = preflight_status(FALSE, FALSE)]
       ELSE \E checked \in BOOLEAN :
            IF NcDds_dds_panics(q.vs, checked)
            THEN rq' = [rq EXCEPT !.pc = "panic"]
            ELSE LET d == NcDds_dds(q.vs) IN
                 IF ~d.ok
                 THEN rq' = [rq EXCEPT !.pc = "done",
                                       !.status = preflight_status(TRUE, FALSE)]
                 ELSE rq' = [rq EXCEPT !.pc = "done",
                                       !.status = preflight_status(TRUE, TRUE),
                                       !.dds = <<d.nodes>>,
                                       !.body = <<Item("dds", 0, d.nodes)>>]
    /\ UNCHANGED <<sv, h5, agg>>

InitDds ==
    /\ rq \in {DdsRequest(q) : q \in DdsQueries}
    /\ sv = Idle
    /\ h5 = Idle
    /\ agg = Idle

NextDds == Dds

SpecDds == InitDds /\ [][NextDds]_vars

\* The head of the chain that is the body: the DDS bytes, then the separator.
chain_head_swapped(dds) ==
    <<Item("separator", 0, "\nData:\r\n"), Item("dds", 0, dds)>>

chain_head(dds) ==
    <<Item("dds", 0, dds), Item("separator", 0, "\nData:\r\n")>>

\* The body's first item.
BodyDds ==
    /\ rq.pc = "dds"
    /\ rq' = [rq EXCEPT !.body = Append(@, chain_head(rq.dds[1])[1]),
                        !.pc = "separator"]
    /\ UNCHANGED <<sv, h5, agg>>

\* The body's second item.
BodySeparator ==
    /\ rq.pc = "separator"
    /\ rq' = [rq EXCEPT !.body = Append(@, chain_head(rq.dds[1])[2]),
                        !.pc = "xdr"]
    /\ UNCHANGED <<sv, h5, agg>>

\* xdr, top of the loop over the projections: the slab of the next one, and
\* the error item for a stride, after which the loop body goes on.
XdrSlab ==
    /\ rq.pc = "xdr"
    /\ IF rq.k > Len(rq.query.vs)
       THEN rq' = [rq EXCEPT !.pc = "done"]
       ELSE LET v == rq.query.vs[rq.k]
                slab == v.hyperslabs
            IN  IF slab /= <<>>
                THEN rq' = [rq EXCEPT
                        !.counts = <<[i \in 1..Len(slab) |-> count_slab(slab[i])]>>,
                        !.indices = <<[i \in 1..Len(slab) |-> slab[i][1]]>>,
                        !.body = IF has_stride(v)
                                 THEN Append(@, Item("err", rq.k, "Strides not implemented yet"))
                                 ELSE @,
                        !.pc = "lookup"]
                ELSE rq' = [rq EXCEPT !.counts = <<>>, !.indices = <<>>,
                                      !.pc = "lookup"]
    /\ UNCHANGED <<sv, h5, agg>>

\* The part of the name after the dot, if there is one.
mv(v) == v.name[Len(v.name)]

\* xdr: the variable of the projection, its slab and pack_var's length.
XdrLookup ==
    /\ rq.pc = "lookup"
    /\ LET name == mv(rq.query.vs[rq.k]) IN
       IF ~nc_variable(name)
       THEN rq' = [rq EXCEPT !.body = Append(@, Item("err", rq.k, "variable not found")),
                             !.pc = "done"]
       ELSE LET indices == IF rq.indices /= <<>> THEN rq.indices[1]
                           ELSE [i \in 1..Len(nc_dims(name)) |-> 0]
                counts == IF rq.counts /= <<>> THEN rq.counts[1] ELSE nc_dims(name)
            IN  rq' = [rq EXCEPT !.indices = <<indices>>, !.counts = <<counts>>,
                                 !.len = <<Product(counts)>>, !.pc = "pack"]
    /\ UNCHANGED <<sv, h5, agg>>

\* encode_value: the one value of a scalar, packed.
encode_value(v) ==
    IF Len(v) = 1 THEN [kind |-> "data", val |-> pack(v)]
    ELSE [kind |-> "err", val |-> <<>>]

pack_scalar_with_length(len_arg) ==
    IF len_arg /= <<>>
    THEN <<[kind |-> "length", val |-> <<len_arg[1], len_arg[1]>>],
           encode_value(values_to(<<>>, <<>>))>>
    ELSE <<encode_value(values_to(<<>>, <<>>))>>

\* pack_var_impl for a scalar: the items of its stream, whatever len is.
pack_scalar(len_arg) == <<encode_value(values_to(<<>>, <<>>))>>

\* pack_var_impl: a variable with dimensions goes to stream_variable and
\* encode_array, a scalar is read and packed at once.
PackVarImpl ==
    /\ rq.pc = "pack"
    /\ LET name == mv(rq.query.vs[rq.k]) IN
       IF nc_dimensions(name) /= <<>>
       THEN /\ sv' = stream_variable(nc_dims(name), rq.indices[1], rq.counts[1], CHUNK_SZ)
            /\ rq' = [rq EXCEPT !.pc = "encode", !.streamed = @ \cup {rq.k}]
       ELSE /\ sv' = sv
            /\ rq' = [rq EXCEPT
                        !.body = @ \o [i \in 1..Len(pack_scalar(rq.len)) |->
                                         Item(pack_scalar(rq.len)[i].kind, rq.k,
                                              pack_scalar(rq.len)[i].val)],
                        !.k = @ + 1, !.pc = "xdr"]
    /\ UNCHANGED <<h5, agg>>

\* encode_array, before its loop: the overflow error, if any.
EncodeArrayCheck ==
    /\ rq.pc = "encode"
    /\ IF rq.len /= <<>> /\ overflows(rq.len[1])
       THEN rq' = [rq EXCEPT
                     !.body = Append(@, Item("err", rq.k, "XDR cannot send slices larger")),
                     !.pc = "length"]
       ELSE rq' = [rq EXCEPT !.pc = "length"]
    /\ UNCHANGED <<sv, h5, agg>>

\* encode_array: the length word, twice.
EncodeArrayLength ==
    /\ rq.pc = "length"
    /\ rq' = [rq EXCEPT
                !.body = IF rq.len /= <<>>
                         THEN Append(@, Item("length", rq.k,
                                         <<as_u32(rq.len[1]), as_u32(rq.len[1])>>))
                         ELSE @,
                !.pc = "data"]
    /\ UNCHANGED <<sv, h5, agg>>

\* encode_array, one turn of its loop: the next buffer of stream_variable,
\* packed, or its error; when the stream is over, xdr goes to the next
\* projection.
EncodeArrayData ==
    /\ rq.pc = "data"
    /\ IF sv.pc = "done"
       THEN /\ sv' = Idle
            /\ rq' = [rq EXCEPT !.k = @ + 1, !.pc = "xdr"]
       ELSE LET p == stream_variable_poll(sv) IN
            /\ sv' = p.st
            /\ rq' = [rq EXCEPT
                        !.body = Append(@, IF p.item.kind = "data"
                                           THEN Item("data", rq.k, pack(p.item.val))
                                           ELSE Item("err", rq.k, "read"))]
    /\ UNCHANGED <<h5, agg>>

InitDods ==
    /\ rq \in {DodsRequest(q) : q \in Queries}
    /\ sv = Idle
    /\ h5 = Idle
    /\ agg = Idle

NextDods ==
    \/ Dods
    \/ BodyDds
    \/ BodySeparator
    \/ XdrSlab
    \/ XdrLookup
    \/ PackVarImpl
    \/ EncodeArrayCheck
    \/ EncodeArrayLength
    \/ EncodeArrayData

SpecDods == InitDods /\ [][NextDods]_vars


\* The items of the body that belong to projection k, in the order sent.
RECURSIVE ItemsOf(_, _)
ItemsOf(body, k) ==
    IF body = <<>> THEN <<>>
    ELSE IF Head(body).var = k THEN <<Head(body)>> \o ItemsOf(Tail(body), k)
    ELSE ItemsOf(Tail(body), k)

\* Projection k has been streamed to its end.
Streamed(k) == k < rq.k \/ (k = rq.k /\ rq.pc = "done" /\ k <= Len(rq.query.vs))

(***************************************************************************)
(* C3: the body of a .dods response is, in this order, the DDS, the        *)
(* separator (once), and the items of the projected variables in the order *)
(* of the constraint; within a variable the length word comes before its   *)
(* data, and no item of a later variable comes before an item of an        *)
(* earlier one.                                                            *)
(***************************************************************************)
C3_BodyOrder ==
    rq.pc /= "idle" =>
    /\ \A i \in 1..Len(rq.body) :
          /\ rq.body[i].kind = "dds" <=> i = 1
          /\ rq.body[i].kind = "separator" <=> i = 2
          /\ i > 2 => rq.body[i].var \in 1..Len(rq.query.vs)
    /\ rq.pc \in {"xdr", "lookup", "pack", "encode", "length", "data"}
          => Len(rq.body) >= 2
    /\ \A i, j \in 1..Len(rq.body) :
          i < j =>
            /\ rq.body[i].var <= rq.body[j].var
            /\ ~(/\ rq.body[i].var = rq.body[j].var
                 /\ rq.body[i].kind = "data"
                 /\ rq.body[j].kind = "length")

\* Two array variables, each streamed in more than one buffer after its
\* length word.
C3_Witness ==
    /\ rq.pc = "done" /\ Len(rq.query.vs) = 2
    /\ \A k \in 1..2 :
          /\ Len(ItemsOf(rq.body, k)) >= 3
          /\ ItemsOf(rq.body, k)[1].kind = "length"
          /\ ItemsOf(rq.body, k)[3].kind = "data"

\* A projection the DDS cannot hold: an unknown variable, or a member that
\* is no variable.
Unknown(v) == \E i \in 1..Len(v.name) : v.name[i] \notin NcVariables

(***************************************************************************)
(* C4: the separator is in the body only behind the DDS built for the      *)
(* request's constraint, in a response of status 200; a request whose      *)
(* constraint does not parse or names an unknown variable has an empty     *)
(* body: no DDS, no separator, no data.                                    *)
(***************************************************************************)
C4_SeparatorOnlyAfterDds ==
    rq.pc /= "idle" =>
    /\ \A i \in 1..Len(rq.body) :
          rq.body[i].kind = "separator" =>
             /\ i = 2 /\ rq.status = 200 /\ rq.dds /= <<>>
             /\ rq.body[1] = Item("dds", 0, rq.dds[1])
             /\ Len(rq.dds[1]) = Len(rq.query.vs)
             /\ \A k \in 1..Len(rq.query.vs) :
                   rq.dds[1][k].name = rq.query.vs[k].name[1]
    /\ (rq.query.malformed \/ \E k \in 1..Len(rq.query.vs) : Unknown(rq.query.vs[k]))
          => /\ rq.body = <<>> /\ rq.dds = <<>>
             /\ rq.pc \in {"dods", "done"}
             /\ rq.pc = "done" => rq.status \in {404, 422}

\* A constraint whose first projection is valid and whose second is not: the
\* request has ended with an empty body.
C4_Witness ==
    /\ rq.pc = "done" /\ rq.status = 404 /\ rq.body = <<>>
    /\ Len(rq.query.vs) = 2
    /\ ~Unknown(rq.query.vs[1]) /\ Unknown(rq.query.vs[2])

\* The counts of projection v after the constraint: the count of each
\* hyperslab given, the size of the dimension where none is given.
PostCounts(v) ==
    [i \in 1..Len(nc_dims(mv(v))) |->
        IF i <= Len(v.hyperslabs)
        THEN IF Len(v.hyperslabs[i]) = 1 THEN 1
             ELSE v.hyperslabs[i][Len(v.hyperslabs[i])] - v.hyperslabs[i][1] + 1
        ELSE nc_dims(mv(v))[i]]

\* A projection of an array variable with a hyperslab for every dimension or
\* for none, and no stride.
PlainArray(v) ==
    /\ nc_variable(mv(v)) /\ nc_dimensions(mv(v)) /= <<>>
    /\ ~has_stride(v)
    /\ Len(v.hyperslabs) \in {0, Len(nc_dimensions(mv(v)))}

(***************************************************************************)
(* C5: the stream of every projected array variable starts with the length *)
(* word, the same value twice, and the value is the product of the         *)
(* variable's counts after the constraint.                                 *)
(***************************************************************************)
C5_PrefixIsProduct ==
    \A k \in 1..(IF rq.pc = "idle" THEN 0 ELSE Len(rq.query.vs)) :
       (PlainArray(rq.query.vs[k]) /\ ItemsOf(rq.body, k) /= <<>>)
       => /\ ItemsOf(rq.body, k)[1].kind = "length"
          /\ ItemsOf(rq.body, k)[1].val
               = <<Product(PostCounts(rq.query.vs[k])), Product(PostCounts(rq.query.vs[k]))>>

(***************************************************************************)
(* C6: for a projected variable of more elements than the length word can  *)
(* hold, the stream carries no length word and no data buffer.             *)
(***************************************************************************)
C6_OverflowStopsStream ==
    \A k \in 1..(IF rq.pc = "idle" THEN 0 ELSE Len(rq.query.vs)) :
       (PlainArray(rq.query.vs[k]) /\ Product(PostCounts(rq.query.vs[k])) > U32_MAX)
       => \A i \in 1..Len(ItemsOf(rq.body, k)) :
             ItemsOf(rq.body, k)[i].kind \notin {"length", "data"}

\* The length arguments pack_var_impl can be given.
LenArgs == {<<>>} \cup {<<n>> : n \in 0..(U32_MAX + 1)}

(***************************************************************************)
(* C7: a scalar variable is streamed as its one packed value and nothing   *)
(* else, whatever length is passed to pack_var_impl; a variable with       *)
(* dimensions that has been streamed has its length word, once, as the     *)
(* first item that is not an error.                                        *)
(***************************************************************************)
C7_ScalarHasNoPrefix ==
    /\ \A l \in LenArgs :
          pack_scalar(l) = <<[kind |-> "data", val |-> <<[be |-> <<>>]>>]>>
    /\ \A k \in 1..(IF rq.pc = "idle" THEN 0 ELSE Len(rq.query.vs)) :
          LET items == ItemsOf(rq.body, k)
              name == mv(rq.query.vs[k])
              words == {i \in 1..Len(items) : items[i].kind = "length"}
          IN  (Streamed(k) /\ nc_variable(name) /\ rq.status = 200)
              => IF nc_dimensions(name) = <<>>
                 THEN /\ words = {}
                      /\ {i \in 1..Len(items) : items[i].kind = "data"} /= {}
                      /\ \A i \in 1..Len(items) :
                            items[i].kind = "data" =>
                               /\ items[i].val = <<[be |-> <<>>]>>
                               /\ i = Len(items)
                 ELSE /\ Cardinality(words) = 1
                      /\ \A i \in 1..Len(items) :
                            items[i].kind = "data" => \E j \in words : j < i

\* A scalar asked for with a hyperslab, so that pack_var_impl gets a length,
\* behind an array variable.
C7_Witness ==
    /\ rq.pc = "done" /\ Len(rq.query.vs) = 2
    /\ rq.query.vs[1].name = <<"TIME">>
    /\ rq.query.vs[2] = [name |-> <<"SCALAR">>, hyperslabs |-> <<Single>>]
    /\ Len(ItemsOf(rq.body, 2)) = 1
    /\ Len(ItemsOf(rq.body, 1)) >= 2

(***************************************************************************)
(* C10: a constraint with a hyperslab of three components is rejected by   *)
(* the DDS operation: no DDS is produced for it, nothing is sent and the   *)
(* streamer is never started.                                              *)
(***************************************************************************)
C10_StrideRejected ==
    (rq.pc /= "idle" /\ \E k \in 1..Len(rq.query.vs) : has_stride(rq.query.vs[k]))
    => /\ rq.dds = <<>>
       /\ rq.body = <<>>
       /\ rq.streamed = {}


(***************************************************************************)
(* C8: the stream of an aggregated array variable starts with the length   *)
(* word, which holds the element count of the whole request (its low 32    *)
(* bits), and holds no other length word, however many members are read.   *)
(***************************************************************************)
C8_OnePrefixFromGlobalCount ==
    (agg.pc \in {"bytes", "done"} /\ agg.abc = "C")
    => /\ Len(agg.out) >= 1
       /\ agg.out[1].kind = "length"
       /\ agg.out[1].val = <<Product(agg.variable.counts) % (U32_MAX + 1),
                             Product(agg.variable.counts) % (U32_MAX + 1)>>
       /\ \A k \in 2..Len(agg.out) : agg.out[k].kind /= "length"

\* A request served from three members: one length word, three buffers.
C8_Witness ==
    /\ agg.pc = "done" /\ agg.abc = "C" /\ AggNoError
    /\ Len(agg.reads) = 3
    /\ Len(agg.out) = 4
    /\ agg.reads[1].mcounts[1] < agg.variable.counts[1]

(***************************************************************************)
(* C9: a data request that finds the file's mtime different from the one   *)
(* recorded at open fails as stale and nothing of the response is          *)
(* produced: no DDS, no length word, no data; a request that finds the two *)
(* equal is not failed as stale.                                           *)
(***************************************************************************)
C9_StaleFailsBeforeAnyByte ==
    \A d \in {h5, agg} :
       d.pc \notin {"idle", "call"} =>
          /\ d.seen /= d.modified
                => /\ d.result = "Stale" /\ d.pc = "done"
                   /\ d.sent = <<>> /\ d.out = <<>>
          /\ d.seen = d.modified => d.result /= "Stale"

\* The file was modified after open and the request on it has failed.
C9_Witness ==
    /\ h5.pc = "done" /\ h5.mtime /= h5.modified /\ h5.seen = h5.mtime
    /\ h5.result = "Stale" /\ h5.variable.counts /= <<>>


\* The node of projection k in the DDS of an answered request.
DdsNode(k) == rq.dds[1][k]

\* A request that was answered with a DDS.
Answered == rq.pc \notin {"idle", "dds_call", "dods", "panic"} /\ rq.dds /= <<>>

\* A projection of a variable of the file by its plain name, each hyperslab
\* [i] or [i:j] with i <= j < the size of its dimension.
InsideArray(v) ==
    /\ Len(v.name) = 1 /\ nc_variable(v.name[1])
    /\ Len(v.hyperslabs) <= Len(nc_dimensions(v.name[1]))
    /\ \A i \in 1..Len(v.hyperslabs) :
          /\ Len(v.hyperslabs[i]) <= 2
          /\ v.hyperslabs[i][1] <= v.hyperslabs[i][Len(v.hyperslabs[i])]
          /\ v.hyperslabs[i][Len(v.hyperslabs[i])]
                < dim_len(nc_dimensions(v.name[1])[i])

(***************************************************************************)
(* C11: a hyperslab [i] counts 1 and a hyperslab [i:j] counts j - i + 1,   *)
(* and this is the size the constrained DDS prints for the dimension the   *)
(* hyperslab is given for.                                                 *)
(***************************************************************************)
C11_InclusiveCountInDds ==
    Answered =>
       \A k \in 1..Len(rq.query.vs) :
          InsideArray(rq.query.vs[k]) =>
             \A i \in 1..Len(rq.query.vs[k].hyperslabs) :
                LET h == rq.query.vs[k].hyperslabs[i] IN
                DdsNode(k).dims[i].size = IF Len(h) = 1 THEN 1 ELSE h[2] - h[1] + 1

(***************************************************************************)
(* C12: in a constrained DDS the size printed at position i of a projected *)
(* array is the count of the i-th hyperslab where one was given and the    *)
(* full size of the i-th dimension where it was left out.                  *)
(***************************************************************************)
C12_PrintedSizeIsCount ==
    Answered =>
       \A k \in 1..Len(rq.query.vs) :
          (InsideArray(rq.query.vs[k]) /\ nc_dimensions(rq.query.vs[k].name[1]) /= <<>>)
          => /\ Len(DdsNode(k).dims) = Len(nc_dimensions(rq.query.vs[k].name[1]))
             /\ \A i \in 1..Len(DdsNode(k).dims) :
                   /\ DdsNode(k).dims[i].name = nc_dimensions(rq.query.vs[k].name[1])[i]
                   /\ DdsNode(k).dims[i].size = PostCounts(rq.query.vs[k])[i]

(***************************************************************************)
(* C13: in a constrained Grid the i-th map is the coordinate variable of   *)
(* the array's i-th dimension and is printed with the size the array has   *)
(* at position i.                                                          *)
(***************************************************************************)
C13_MapsMatchArray ==
    Answered =>
       \A k \in 1..Len(rq.query.vs) :
          (InsideArray(rq.query.vs[k]) /\ DdsNode(k).kind = "Grid")
          => /\ Len(DdsNode(k).maps) = Len(DdsNode(k).dims)
             /\ \A i \in 1..Len(DdsNode(k).maps) :
                   /\ DdsNode(k).maps[i].name = DdsNode(k).dims[i].name
                   /\ DdsNode(k).maps[i].dims[1].size = DdsNode(k).dims[i].size

\* The members the DDS of the file has for a structure: the variable itself
\* and the coordinate variables of its dimensions, for a variable of two
\* dimensions or more.
StructureMember(var, member) ==
    /\ nc_variable(var) /\ Len(nc_dimensions(var)) >= 2 /\ nc_variable(member)
    /\ \/ member = var
       \/ \E i \in 1..Len(nc_dimensions(var)) : nc_dimensions(var)[i] = member

\* A projection of a variable or of a structure member the file does not have.
UnknownName(v) ==
    IF Len(v.name) = 1 THEN ~nc_variable(v.name[1])
    ELSE ~StructureMember(v.name[1], v.name[2])

(***************************************************************************)
(* C14: a constraint with a projection of an unknown variable or of an     *)
(* unknown structure member gets an error from the DDS operation and no    *)
(* DDS at all.                                                             *)
(***************************************************************************)
C14_UnknownNameFailsWhole ==
    (/\ rq.pc = "done" /\ ~rq.query.malformed
     /\ \E k \in 1..Len(rq.query.vs) : UnknownName(rq.query.vs[k]))
    => rq.status = 404 /\ rq.dds = <<>> /\ rq.body = <<>>

\* A projection of a variable of the file with a hyperslab that runs past
\* its dimension, runs backwards, or has no dimension to apply to.
BadSlab(v) ==
    /\ Len(v.name) = 1 /\ nc_variable(v.name[1])
    /\ \E i \in 1..Len(v.hyperslabs) :
          \/ i > Len(nc_dimensions(v.name[1]))
          \/ v.hyperslabs[i][Len(v.hyperslabs[i])] < v.hyperslabs[i][1]
          \/ v.hyperslabs[i][Len(v.hyperslabs[i])]
                >= dim_len(nc_dimensions(v.name[1])[i])

(***************************************************************************)
(* C15: a constraint with a hyperslab past the end of its dimension, a     *)
(* hyperslab [i:j] with j < i, or a hyperslab on a scalar gets an error    *)
(* from the DDS operation: the request ends, without a panic, with an      *)
(* error status and no DDS.                                                *)
(***************************************************************************)
C15_BadSlabIsError ==
    (/\ rq.pc \in {"done", "panic"} /\ ~rq.query.malformed
     /\ \E k \in 1..Len(rq.query.vs) : BadSlab(rq.query.vs[k]))
    => rq.pc = "done" /\ rq.status \in {404, 422} /\ rq.dds = <<>>


(***************************************************************************)
(* The facade serving .dds and .dods requests on the same constraints.     *)
(***************************************************************************)
InitFacade ==
    /\ rq \in {DodsRequest(q) : q \in Queries} \cup {DdsRequest(q) : q \in Queries}
    /\ sv = Idle
    /\ h5 = Idle
    /\ agg = Idle

NextFacade == Dds \/ NextDods

SpecFacade == InitFacade /\ [][NextFacade]_vars

(***************************************************************************)
(* C16: a .dds or .dods request whose constraint does not parse is         *)
(* answered 422, one whose constraint parses and names an unknown variable *)
(* is answered 404; either way the body is empty and the request has ended *)
(* without a stream of any variable.                                       *)
(***************************************************************************)
C16_PreflightStatus ==
    rq.pc \notin {"idle", "dds_call", "dods"} =>
       /\ rq.query.malformed
             => /\ rq.status = 422 /\ rq.pc = "done"
                /\ rq.body = <<>> /\ rq.streamed = {}
       /\ (~rq.query.malformed /\ \E k \in 1..Len(rq.query.vs) : Unknown(rq.query.vs[k]))
             => /\ rq.status = 404 /\ rq.pc = "done"
                /\ rq.body = <<>> /\ rq.streamed = {}
       /\ (~rq.query.malformed /\ \A k \in 1..Len(rq.query.vs) : ~Unknown(rq.query.vs[k]))
             => rq.status = 200

\* A .dds request for a variable of the file and an unknown one has been
\* answered 404.
C16_Witness ==
    /\ rq.pc = "done" /\ rq.k = 0 /\ rq.status = 404 /\ ~rq.query.malformed
    /\ Len(rq.query.vs) = 2
    /\ rq.query.vs[1].name = <<"SST">> /\ rq.query.vs[2].name = <<"NOPE">>


\* The member that holds global index g (from 0) of the joined dimension, and
\* the local index of g in it.
RECURSIVE MemberOf(_, _, _)
MemberOf(members, g, m) ==
    IF g < members[m] THEN [member |-> m, k |-> g]
    ELSE MemberOf(members, g - members[m], m + 1)

(***************************************************************************)
(* C17: the coordinate cache of an opened aggregate holds (sum of the      *)
(* members' lengths) times the element width bytes, and they are the       *)
(* members' coordinate values in the order of the members list.            *)
(***************************************************************************)
C17_CacheIsConcatOfMembers ==
    agg.pc \notin {"idle", "open", "failed"} =>
       /\ Len(agg.coordinates.bytes) = Sum(agg.members) * agg.coordinates.dsz
       /\ \A g \in 0..(Sum(agg.members) - 1) :
             \A b \in 1..agg.coordinates.dsz :
                agg.coordinates.bytes[g * agg.coordinates.dsz + b]
                   = [el |-> Element(MemberOf(agg.members, g, 1).member,
                                     <<MemberOf(agg.members, g, 1).k>>),
                      b |-> b]

\* An aggregate of three members of different lengths with values wider
\* than a byte.
C17_Witness ==
    /\ agg.pc = "call" /\ Len(agg.members) = 3 /\ agg.coordinates.dsz = 2
    /\ agg.members[1] /= agg.members[2]
    /\ Len(agg.coordinates.bytes) = 2 * Sum(agg.members)

\* A request for the coordinate with one (start, count) that ends inside the
\* cache.
CoordinateInside ==
    /\ Len(agg.variable.indices) = 1 /\ Len(agg.variable.counts) = 1
    /\ (agg.variable.indices[1] + agg.variable.counts[1]) * agg.coordinates.dsz
          <= Len(agg.coordinates.bytes)

(***************************************************************************)
(* C18: a read of the coordinate D with (start, count) gives the bytes     *)
(* start*w .. (start+count)*w - 1 of the cache as its data; when           *)
(* (start+count)*w is past the end of the cache, or the request has not    *)
(* exactly one dimension, the read fails and nothing is emitted, the       *)
(* length word included.                                                   *)
(***************************************************************************)
C18_CoordinateSlice ==
    (agg.pc \notin {"idle", "open", "failed", "call"}
     /\ agg.variable.name = dimension /\ agg.result /= "Stale")
    => IF CoordinateInside
       THEN /\ agg.result = "Ok" /\ agg.abc = "A"
            /\ agg.pc = "done" =>
                  /\ Len(agg.out) = 2
                  /\ agg.out[1].kind = "length"
                  /\ agg.out[2].kind = "data"
                  /\ Len(agg.out[2].val)
                        = agg.variable.counts[1] * agg.coordinates.dsz
                  /\ \A j \in 1..Len(agg.out[2].val) :
                        agg.out[2].val[j]
                           = agg.coordinates.bytes[
                                agg.variable.indices[1] * agg.coordinates.dsz + j]
       ELSE /\ agg.result = "Err" /\ agg.pc = "done"
            /\ agg.out = <<>> /\ agg.sent = <<>>

\* A slice that starts and ends inside the cache of two-byte values has been
\* streamed.
C18_Witness ==
    /\ agg.pc = "done" /\ agg.abc = "A" /\ agg.coordinates.dsz = 2
    /\ agg.variable.indices[1] >= 1
    /\ Len(agg.out) = 2 /\ Len(agg.out[2].val) = 4
    /\ (agg.variable.indices[1] + agg.variable.counts[1]) < Sum(agg.members)

(***************************************************************************)
(* C19: a variable is read from the first member alone only if the joined  *)
(* dimension is none of its dimensions; a variable other than the          *)
(* coordinate that has the joined dimension among its dimensions is read   *)
(* by the walk over the members.                                           *)
(***************************************************************************)
C19_RoutingByDependence ==
    agg.pc \in {"dods", "length", "bytes"} =>
       /\ agg.abc = "B"
             => \A i \in 1..Len(agg.variable.dimensions) :
                   agg.variable.dimensions[i] /= dimension
       /\ (/\ agg.variable.name /= dimension
           /\ \E i \in 1..Len(agg.variable.dimensions) :
                 agg.variable.dimensions[i] = dimension)
             => agg.abc = "C"


(***************************************************************************)
(* The members list of an aggregate: NcmlDataset::open of both versions    *)
(* and NcmlDataset::changed.  A file path is a number, the order of paths  *)
(* is the order of the numbers; a member is the path of its file, its rank *)
(* is looked up in the ranks of the files.                                 *)
(***************************************************************************)
Paths == 1..MaxFiles

\* Sequences without repetition of the paths in S.
RECURSIVE Orderings(_)
Orderings(S) ==
    IF S = {} THEN {<<>>}
    ELSE UNION {{<<x>> \o t : t \in Orderings(S \ {x})} : x \in S}

Range(q) == {q[i] : i \in 1..Len(q)}

\* Vec::sort on paths.
RECURSIVE sort(_)
sort(v) ==
    IF v = <<>> THEN <<>>
    ELSE LET lo == CHOOSE x \in Range(v) : \A y \in Range(v) : x <= y
         IN  <<lo>> \o sort(SelectSeq(v, LAMBDA y : y /= lo))

\* Ord of Vec<PathBuf>: lexicographic.
RECURSIVE vec_less(_, _)
vec_less(a, b) ==
    IF b = <<>> THEN FALSE
    ELSE IF a = <<>> THEN TRUE
    ELSE IF a[1] /= b[1] THEN a[1] < b[1]
    ELSE vec_less(Tail(a), Tail(b))

\* files.sort() on the groups of files, one group for each tag.
RECURSIVE sort_groups(_)
sort_groups(files) ==
    IF files = <<>> THEN <<>>
    ELSE LET lo == CHOOSE x \in Range(files) :
                      \A y \in Range(files) : x = y \/ vec_less(x, y)
         IN  <<lo>> \o sort_groups(SelectSeq(files, LAMBDA y : y /= lo))

\* members.sort_by(|a, b| a.rank.partial_cmp(&b.rank)...): a stable sort by
\* rank.
RECURSIVE sort_by(_, _)
sort_by(members, rank) ==
    IF members = <<>> THEN <<>>
    ELSE LET rest == sort_by(Tail(members), rank)
             x == members[1]
         IN  SelectSeq(rest, LAMBDA y : rank[y] < rank[x]) \o <<x>>
                \o SelectSeq(rest, LAMBDA y : rank[y] >= rank[x])

\* What the tags of an aggregation list: for each tag its files, in the
\* order the tag or the walk of the scanned directory gives them, no file
\* twice.
Listings ==
    UNION { { [g \in 1..n |-> SubSeq(o, cut[g] + 1, cut[g + 1])] :
                cut \in { c \in [1..(n + 1) -> 0..Len(o)] :
                             /\ c[1] = 0 /\ c[n + 1] = Len(o)
                             /\ \A g \in 1..n : c[g] < c[g + 1] } } :
            n \in 0..MaxGroups, o \in UNION {Orderings(S) : S \in SUBSET Paths} }

MembersRequest(version, listing, rank) ==
    [pc |-> "open", version |-> version, listing |-> listing, rank |-> rank,
     members |-> <<>>, events |-> 0]

\* src/dars NcmlDataset::open: the files in the order listed, sorted by rank.
OpenNew ==
    /\ agg.pc = "open" /\ agg.version = "new"
    /\ LET files == Flatten(agg.listing)
           members == sort_by(files, agg.rank)
       IN  IF ~(Len(members) > 0)
           THEN agg' = [agg EXCEPT !.pc = "failed"]
           ELSE agg' = [agg EXCEPT !.pc = "opened", !.members = members]
    /\ UNCHANGED <<sv, rq, h5>>

\* src/src NcmlDataset::open: the files of each scan sorted, the groups
\* sorted, the members sorted by rank.
OpenOld ==
    /\ agg.pc = "open" /\ agg.version = "old"
    /\ LET files == sort_groups([g \in 1..Len(agg.listing) |-> sort(agg.listing[g])])
           members == sort_by(Flatten(files), agg.rank)
       IN  IF members = <<>>
           THEN agg' = [agg EXCEPT !.pc = "failed"]
           ELSE agg' = [agg EXCEPT !.pc = "opened", !.members = members]
    /\ UNCHANGED <<sv, rq, h5>>

\* NcmlDataset::changed, Create(File) for path p: the member is pushed and
\* the list is sorted, unless the file is a member or cannot be opened.
ChangedCreate ==
    /\ agg.pc = "opened" /\ agg.version = "old" /\ agg.events < MaxEvents
    /\ \E p \in Paths :
          IF p \in Range(agg.members)
          THEN agg' = [agg EXCEPT !.events = @ + 1]
          ELSE \/ agg' = [agg EXCEPT !.events = @ + 1,
                            !.members = sort_by(Append(agg.members, p), agg.rank)]
               \/ agg' = [agg EXCEPT !.events = @ + 1]
    /\ UNCHANGED <<sv, rq, h5>>

\* NcmlDataset::changed, Remove(File) for path p: the member is removed and
\* the list is sorted; with no member left changed returns an error.
ChangedRemove ==
    /\ agg.pc = "opened" /\ agg.version = "old" /\ agg.events < MaxEvents
    /\ \E p \in Paths :
          IF p \in Range(agg.members)
          THEN agg' = [agg EXCEPT !.events = @ + 1,
                         !.members = sort_by(SelectSeq(agg.members,
                                                       LAMBDA y : y /= p), agg.rank)]
          ELSE agg' = [agg EXCEPT !.events = @ + 1]
    /\ UNCHANGED <<sv, rq, h5>>

InitMembers ==
    /\ agg \in { MembersRequest(v, l, r) :
                   v \in {"new", "old"}, l \in Listings,
                   r \in [Paths -> 0..MaxRankVal] }
    /\ sv = Idle
    /\ rq = Idle
    /\ h5 = Idle

NextMembers ==
    \/ OpenNew
    \/ OpenOld
    \/ ChangedCreate
    \/ ChangedRemove

SpecMembers == InitMembers /\ [][NextMembers]_vars

(***************************************************************************)
(* C20: after open and after every change of the member set the members    *)
(* list is in non-decreasing order of rank, and members of equal rank are  *)
(* in the order of their file paths.                                       *)
(***************************************************************************)
C20_SortedByRankThenPath ==
    agg.pc = "opened" =>
       \A i, j \in 1..Len(agg.members) :
          i < j =>
             /\ agg.rank[agg.members[i]] <= agg.rank[agg.members[j]]
             /\ agg.rank[agg.members[i]] = agg.rank[agg.members[j]]
                   => agg.members[i] < agg.members[j]

(***************************************************************************)
(* The aggregate of src/src/ncml under the file watcher: changed() and the *)
(* callback that delivers the events.                                      *)
(***************************************************************************)
MaxWatched == 3

Watched == 1..MaxWatched

\* The files behind the watched paths: the last path is a hard link to the
\* file of the first one.
inode(p) == IF p = MaxWatched THEN 1 ELSE p

\* NcmlMember.n, the length of the file along the aggregation dimension.
member_n(p) == ((p - 1) % MaxN) + 1

is_same_file_by_path(p, q) == p = q

\* same_file::is_same_file(..).unwrap_or(false), both files being there.
is_same_file(p, q) == inode(p) = inode(q)

EventKinds == {"CreateFile", "CreateFolder", "RemoveFile", "RemoveFolder", "Other"}

\* Create(File): the path is opened and pushed unless its file is a member.
changed_create(members, p, opened) ==
    IF \E i \in 1..Len(members) : is_same_file(p, members[i])
    THEN members
    ELSE IF opened THEN Append(members, p) ELSE members

\* Remove(File): the first member of that path is removed.
changed_remove(members, p) ==
    IF \E i \in 1..Len(members) : members[i] = p
    THEN LET i == CHOOSE k \in 1..Len(members) :
                     /\ members[k] = p
                     /\ \A l \in 1..(k - 1) : members[l] /= p
         IN  SubSeq(members, 1, i - 1) \o SubSeq(members, i + 1, Len(members))
    ELSE members

\* The aggregate after open: members sorted by rank, DAS of the first
\* member, DDS and dim_n from the sum of the members' lengths.
NcmlDataset(members, rank) ==
    LET sorted == sort_by(members, rank)
        dim_n == Sum([i \in 1..Len(sorted) |-> member_n(sorted[i])])
    IN  [members |-> sorted, das |-> sorted[1], dds |-> dim_n, dim_n |-> dim_n]

\* NcmlDataset::changed for an event of one path; opened, das_ok and dds_ok
\* are the outcomes of NcmlMember::open, NcDas::build and NcmlDds::build.
changed(self, rank, kind, p, opened, das_ok, dds_ok) ==
    IF kind \in {"CreateFolder", "RemoveFolder"}
    THEN [self |-> self, result |-> "panic"]
    ELSE LET pushed == IF kind = "CreateFile"
                       THEN changed_create(self.members, p, opened)
                       ELSE IF kind = "RemoveFile"
                       THEN changed_remove(self.members, p)
                       ELSE self.members
             members == sort_by(pushed, rank)
             dim_n == Sum([i \in 1..Len(members) |-> member_n(members[i])])
         IN  IF pushed = self.members
             THEN [self |-> self, result |-> "Ok"]
             ELSE IF members = <<>>
             THEN [self |-> [self EXCEPT !.members = members], result |-> "Err"]
             ELSE IF ~das_ok
             THEN [self |-> [self EXCEPT !.members = members], result |-> "Err"]
             ELSE IF ~dds_ok
             THEN [self |-> [self EXCEPT !.members = members, !.das = members[1]],
                   result |-> "Err"]
             ELSE [self |-> [self EXCEPT !.members = members, !.das = members[1],
                                         !.dds = dim_n],
                   result |-> "Ok"]

\* The member lists an aggregate is opened with: no file twice.
WatchedMembers ==
    { sort(o) : o \in { q \in UNION {Orderings(S) : S \in SUBSET Watched} :
                          /\ q /= <<>>
                          /\ \A i, j \in 1..Len(q) :
                                i /= j => inode(q[i]) /= inode(q[j]) } }

WatchRequest(members, rank) ==
    [pc |-> "opened", rank |-> rank, self |-> NcmlDataset(members, rank),
     events |-> 0, kind |-> "", path |-> 0, before |-> <<>>]

\* The watcher's callback for one event: changed() on the aggregate, and a
\* panic of the watcher's thread when changed() returns an error.
Changed ==
    /\ agg.pc = "opened" /\ agg.events < MaxEvents
    /\ \E kind \in EventKinds, p \in Watched, opened, das_ok, dds_ok \in BOOLEAN :
          LET r == changed(agg.self, agg.rank, kind, p, opened, das_ok, dds_ok)
          IN  agg' = [agg EXCEPT !.pc = IF r.result = "Ok" THEN "opened" ELSE "panicked",
                                 !.self = r.self, !.events = @ + 1,
                                 !.kind = kind, !.path = p,
                                 !.before = agg.self.members]
    /\ UNCHANGED <<sv, rq, h5>>

InitWatch ==
    /\ agg \in { WatchRequest(m, r) :
                   m \in WatchedMembers, r \in [Watched -> 0..MaxRankVal] }
    /\ sv = Idle
    /\ rq = Idle
    /\ h5 = Idle

NextWatch == Changed

SpecWatch == InitWatch /\ [][NextWatch]_vars

(***************************************************************************)
(* C21: after open and after every event that changed() handled without   *)
(* an error, the dim_n field and the size of the aggregation dimension in  *)
(* the DDS are the sum of the lengths of the members the aggregate has,    *)
(* and the DAS is the one of its first member.                             *)
(***************************************************************************)
C21_JoinedSizeIsSumOfMembers ==
    agg.pc = "opened" =>
       LET members == agg.self.members
           total == Sum([i \in 1..Len(members) |-> member_n(members[i])])
       IN  /\ agg.self.dim_n = total
           /\ agg.self.dds = total
           /\ members /= <<>> => agg.self.das = members[1]

MaxOpeners == 2
MaxIdxFiles == 2

Openers == 1..MaxOpeners
IdxFiles == 1..MaxIdxFiles

\* What the store holds under the key of a file: nothing, the encoded index,
\* or bytes that do not decode to an index.
Blobs == {"none", "index", "corrupt"}

\* db.contains_key(&idxkey)
contains_key(db, idxkey) == db[idxkey] /= "none"

\* bincode::deserialize::<idx::Index>(&bts)
deserialize(bts) == IF bts = "index" THEN "Ok" ELSE "Err"

IndexRequest(db, file) ==
    [pc |-> [o \in Openers |-> "open"], file |-> file, db |-> db,
     indexed |-> [f \in IdxFiles |-> 0], inserted |-> [f \in IdxFiles |-> 0]]

\* open, line 48: the key is tested; an open that finds it is done.
OpenContainsKey(o) ==
    /\ h5.pc[o] = "open"
    /\ h5' = [h5 EXCEPT !.pc[o] = IF contains_key(h5.db, h5.file[o])
                                  THEN "opened" ELSE "index"]
    /\ UNCHANGED <<sv, rq, agg>>

\* open, lines 50-52: the file is indexed, or indexing fails and open
\* returns the error.
OpenIndexFile(o) ==
    /\ h5.pc[o] = "index"
    /\ \/ h5' = [h5 EXCEPT !.pc[o] = "insert",
                           !.indexed[h5.file[o]] = @ + 1]
       \/ h5' = [h5 EXCEPT !.pc[o] = "failed"]
    /\ UNCHANGED <<sv, rq, agg>>

\* open, line 55: the index is inserted under the key.
OpenInsert(o) ==
    /\ h5.pc[o] = "insert"
    /\ h5' = [h5 EXCEPT !.pc[o] = "opened",
                        !.db[h5.file[o]] = "index",
                        !.inserted[h5.file[o]] = @ + 1]
    /\ UNCHANGED <<sv, rq, agg>>

\* variable, lines 119-120, of a dataset that open returned: the blob is
\* fetched and decoded.
VariableDeserialize(o) ==
    /\ h5.pc[o] = "opened"
    /\ h5' = [h5 EXCEPT !.pc[o] =
                 IF deserialize(h5.db[h5.file[o]]) = "Ok" THEN "streaming"
                 ELSE "error"]
    /\ UNCHANGED <<sv, rq, agg>>

InitIndex ==
    /\ h5 \in { IndexRequest(db, file) :
                  db \in [IdxFiles -> Blobs], file \in [Openers -> IdxFiles] }
    /\ sv = Idle
    /\ rq = Idle
    /\ agg = Idle

NextIndex ==
    \E o \in Openers :
       \/ OpenContainsKey(o)
       \/ OpenIndexFile(o)
       \/ OpenInsert(o)
       \/ VariableDeserialize(o)

SpecIndex == InitIndex /\ [][NextIndex]_vars

(***************************************************************************)
(* C23: whatever the interleaving of the opens of a file, its index is     *)
(* built at most once and inserted at most once.                           *)
(***************************************************************************)
C23_IndexedAtMostOnce ==
    \A f \in IdxFiles : h5.indexed[f] <= 1 /\ h5.inserted[f] <= 1

(***************************************************************************)
(* C24: once an open of a file has returned, the store holds an index of   *)
(* the file that decodes, and no data request on the dataset fails on the  *)
(* stored blob.                                                            *)
(***************************************************************************)
C24_OpenReplacesCorruptIndex ==
    \A o \in Openers :
       /\ h5.pc[o] = "opened" => deserialize(h5.db[h5.file[o]]) = "Ok"
       /\ h5.pc[o] /= "error"

(***************************************************************************)
(* The DAS text: Das::from of dap2 and NcDas::build of the old server. A   *)
(* text is the sequence of the pieces it is formatted from.                *)
(***************************************************************************)
MaxAttrs == 2
INDENT == 4

\* " ".repeat(n)
repeat(n) == [sp |-> n]

\* The variants of AttrValue that format_attr of dap2 prints, with the type
\* name it prints for each.
TypeName ==
    [Str |-> "String", Float |-> "Float32", Floats |-> "Float32",
     Double |-> "Float64", Doubles |-> "Float64", Short |-> "Int16",
     Int |-> "Int32", Ints |-> "Int32", Uchar |-> "Byte"]

\* The variants the model draws attributes from: Shorts stands for the
\* variants that reach the last arm of the match.
AttrValue == {"Str", "Float", "Ints", "Shorts", "Unimplemented", "Ignored"}

\* netcdf::attribute::AttrValue as NcDas::format_attr sees it: a.value() is
\* Ok of a variant, or Err.
NcAttrValue == {"Str", "Double", "Ints", "Err"}

Attribute(name, value) == [name |-> name, value |-> value]

\* Das::format_attr
Das_format_attr(a) ==
    IF a.value \in DOMAIN TypeName
    THEN <<repeat(INDENT), TypeName[a.value], a.name, [value |-> a.name], ";">>
    ELSE <<>>

\* impl From<T: ToDas> for Das, for a dataset of one variable.
Das_from(dataset) ==
    LET line(a) == <<repeat(INDENT)>> \o Das_format_attr(a) \o <<"\n">>
        block(attrs) == Flatten([i \in 1..Len(attrs) |-> line(attrs[i])])
    IN  <<"Attributes {", "\n">>
           \o (IF dataset.has_global_attributes
               THEN <<repeat(INDENT), "NC_GLOBAL {", "\n">>
                       \o block(dataset.global_attributes)
                       \o <<repeat(INDENT), "}", "\n">>
               ELSE <<>>)
           \o <<repeat(4), dataset.variable, " {", "\n">>
           \o block(dataset.variable_attributes)
           \o <<repeat(4), "}", "\n">>
           \o <<"}">>

\* NcDas::format_attr
NcDas_format_attr(indent, a) ==
    IF a.value = "Str"
    THEN <<repeat(indent), "String", a.name, [value |-> a.name], ";", "\n">>
    ELSE IF a.value = "Float"
    THEN <<repeat(indent), "Float32", a.name, [value |-> a.name], ";", "\n">>
    ELSE IF a.value = "Double"
    THEN <<repeat(indent), "Float64", a.name, [value |-> a.name], ";", "\n">>
    ELSE IF a.value = "Err"
    THEN <<"Err">>
    ELSE <<repeat(indent), "Unimplemented", a.name, [value |-> a.name], ";", "\n">>

\* NcDas::build, for a file of one variable.
NcDas_build(dataset) ==
    LET indent == 4
        push_attr(attrs) ==
            Flatten([i \in 1..Len(attrs) |-> NcDas_format_attr(2 * indent, attrs[i])])
    IN  <<"Attributes {", "\n">>
           \o (IF dataset.global_attributes /= <<>>
               THEN <<repeat(4), "NC_GLOBAL {", "\n">>
                       \o push_attr(dataset.global_attributes)
                       \o <<repeat(4), "}", "\n">>
               ELSE <<>>)
           \o <<repeat(4), dataset.variable, " {", "\n">>
           \o push_attr(dataset.variable_attributes)
           \o <<repeat(4), "}", "\n">>
           \o <<"}">>

\* The attribute lists of a container: at most max attributes, named by
\* their position.
AttributeLists(values, max) ==
    UNION { { [i \in 1..n |-> Attribute(i, vs[i])] : vs \in [1..n -> values] } :
            n \in 0..max }

DasDatasets(max) ==
    { [version |-> "dap2", has_global_attributes |-> g,
       global_attributes |-> ga, variable |-> "v", variable_attributes |-> va] :
         g \in BOOLEAN, ga \in AttributeLists(AttrValue, max),
         va \in AttributeLists(AttrValue, max) }
    \cup
    { [version |-> "nc", has_global_attributes |-> ga /= <<>>,
       global_attributes |-> ga, variable |-> "v", variable_attributes |-> va] :
         ga \in AttributeLists(NcAttrValue, max),
         va \in AttributeLists(NcAttrValue, max) }

\* The values that are printed as an attribute of their type.
Supported(dataset) ==
    IF dataset.version = "dap2"
    THEN {"Str", "Float", "Floats", "Double", "Doubles", "Short", "Int",
          "Ints", "Uchar"}
    ELSE {"Str", "Float", "Double"}

\* The container without the attributes of unsupported value; whether the
\* dap2 dataset says it has global attributes is left as it is.
WithoutUnsupported(dataset) ==
    LET keep(a) == a.value \in Supported(dataset)
        ga == SelectSeq(dataset.global_attributes, keep)
    IN  [dataset EXCEPT !.global_attributes = ga,
                        !.variable_attributes = SelectSeq(@, keep)]

DasRequest(dataset) == [pc |-> "build", dataset |-> dataset, das |-> <<>>]

\* Das::from builds the text.
DasFrom ==
    /\ rq.pc = "build" /\ rq.dataset.version = "dap2"
    /\ rq' = [rq EXCEPT !.pc = "built", !.das = Das_from(rq.dataset)]
    /\ UNCHANGED <<sv, h5, agg>>

\* NcDas::build builds the text.
NcDasBuild ==
    /\ rq.pc = "build" /\ rq.dataset.version = "nc"
    /\ rq' = [rq EXCEPT !.pc = "built", !.das = NcDas_build(rq.dataset)]
    /\ UNCHANGED <<sv, h5, agg>>

InitDas ==
    /\ rq \in { DasRequest(d) : d \in DasDatasets(MaxAttrs) }
    /\ sv = Idle
    /\ h5 = Idle
    /\ agg = Idle

NextDas ==
    \/ DasFrom
    \/ NcDasBuild

SpecDas == InitDas /\ [][NextDas]_vars

\* The text of the container without its attributes of unsupported value.
DasWithoutUnsupported(dataset) ==
    IF dataset.version = "dap2"
    THEN Das_from(WithoutUnsupported(dataset))
    ELSE NcDas_build([WithoutUnsupported(dataset) EXCEPT
                        !.has_global_attributes =
                            WithoutUnsupported(dataset).global_attributes /= <<>>])

(***************************************************************************)
(* C25: the DAS text of a container is the DAS text of the container       *)
(* without its attributes of Ignored, Unimplemented or other unsupported   *)
(* value.                                                                  *)
(***************************************************************************)
C25_UnsupportedLeavesNoLine ==
    rq.pc = "built" => rq.das = DasWithoutUnsupported(rq.dataset)

(***************************************************************************)
(* NcDds::build and the unconstrained DDS, for any file: a file is the     *)
(* function from the names of its variables to their dimension names, a    *)
(* name is the sequence of its characters.                                 *)
(***************************************************************************)
MaxNcRank == 2

NcNames == {<<"t">>, <<"s">>, <<"v">>, <<"v", ".", "t">>}
NcDimNames == {<<"t">>, <<"s">>}

NcFiles ==
    UNION { [S -> UNION {[1..n -> NcDimNames] : n \in 0..MaxNcRank}] :
            S \in SUBSET NcNames }

\* k.contains(".")
contains_dot(k) == \E i \in 1..Len(k) : k[i] = "."

\* format!("{}.{}", var.name(), d.name())
member_key(var, d) == var \o <<".">> \o d

\* format_var for a variable of the file, no slab.
format_var_in(nc, var) ==
    IF Len(nc[var]) >= 1
    THEN Node("Atomic", var, <<nc[var][1]>>, <<>>)
    ELSE Node("Atomic", var, <<>>, <<>>)

\* format_grid for a variable of the file, no slab.
format_grid_in(nc, var) ==
    IF ~(\A i \in 1..Len(nc[var]) : nc[var][i] \in DOMAIN nc)
    THEN Node("Atomic", var, nc[var], <<>>)
    ELSE Node("Grid", var, nc[var],
              [i \in 1..Len(nc[var]) |-> format_var_in(nc, nc[var][i])])

\* format_struct for a variable and a member of it, no slab.
format_struct_in(nc, var, dim) ==
    Node("Structure", var, <<>>, <<Node("Atomic", dim, nc[dim], <<>>)>>)

\* The entries build() inserts for one variable, as key and node.
build_entries(nc, var) ==
    IF Len(nc[var]) < 2
    THEN {[k |-> var, v |-> format_var_in(nc, var)]}
    ELSE {[k |-> var, v |-> format_grid_in(nc, var)]}
         \cup {[k |-> member_key(var, var), v |-> format_struct_in(nc, var, var)]}
         \cup {[k |-> member_key(var, nc[var][i]),
                v |-> format_struct_in(nc, var, nc[var][i])] :
                  i \in {j \in 1..Len(nc[var]) : nc[var][j] \in DOMAIN nc}}

\* NcDds::build: the entries inserted in the map. Two entries have one key
\* only when the key has a dot (a variable named like a member of
\* another), and then the later insert replaces the earlier one.
NcDds_build(nc) == UNION {build_entries(nc, var) : var \in DOMAIN nc}

\* NcDds::dds with no constraint: the values of the keys without a dot, in
\* the order of the hash map, which the model leaves out.
NcDds_dds_all(map) == { e.v : e \in {q \in map : ~contains_dot(q.k)} }

BuildRequest(nc) == [pc |-> "build", nc |-> nc, dds |-> {}]

\* build() of a file and dds() without a constraint.
BuildDds ==
    /\ rq.pc = "build"
    /\ rq' = [rq EXCEPT !.pc = "built",
                        !.dds = NcDds_dds_all(NcDds_build(rq.nc))]
    /\ UNCHANGED <<sv, h5, agg>>

InitBuild ==
    /\ rq \in { BuildRequest(nc) : nc \in NcFiles }
    /\ sv = Idle
    /\ h5 = Idle
    /\ agg = Idle

NextBuild == BuildDds

SpecBuild == InitBuild /\ [][NextBuild]_vars

(***************************************************************************)
(* C26: the unconstrained DDS has exactly one top-level node for each      *)
(* variable of the file and none for other names; the node is a Grid when  *)
(* the variable has two or more dimensions and each of them is the name of *)
(* a variable of one dimension, and an Atomic otherwise.                   *)
(***************************************************************************)
C26_GridIffAllCoordinates ==
    rq.pc = "built" =>
       LET nc == rq.nc
           grid(var) == /\ Len(nc[var]) >= 2
                        /\ \A i \in 1..Len(nc[var]) :
                              /\ nc[var][i] \in DOMAIN nc
                              /\ Len(nc[nc[var][i]]) = 1
       IN  /\ \A var \in DOMAIN nc :
                /\ Cardinality({n \in rq.dds : n.name = var}) = 1
                /\ \A n \in rq.dds :
                      n.name = var => n.kind = IF grid(var) THEN "Grid" ELSE "Atomic"
           /\ \A n \in rq.dds : n.name \in DOMAIN nc

(***************************************************************************)
(* The watcher's callback and a request on the lock of the registry DATA:  *)
(* the callback takes the lock for writing, runs changed() and drops the   *)
(* guard when it returns or unwinds; a request takes the lock for reading, *)
(* looks at the aggregate and releases it.                                 *)
(***************************************************************************)
LockRequest(members, rank) ==
    [pc |-> "wait", rank |-> rank, self |-> NcmlDataset(members, rank),
     events |-> 0, kind |-> "", path |-> 0, outcome |-> <<>>,
     writer |-> FALSE, readers |-> 0, request |-> "idle", seen |-> <<>>]

\* block_on(DATA.write()) for one event: granted when no guard is out.
CallbackWrite ==
    /\ agg.pc = "wait" /\ agg.events < MaxEvents
    /\ ~agg.writer /\ agg.readers = 0
    /\ \E kind \in EventKinds, p \in Watched, opened, das_ok, dds_ok \in BOOLEAN :
          agg' = [agg EXCEPT !.pc = "changed", !.writer = TRUE,
                             !.events = @ + 1, !.kind = kind, !.path = p,
                             !.outcome = <<opened, das_ok, dds_ok>>]
    /\ UNCHANGED <<sv, rq, h5>>

\* changed(), the match on the event: the member is pushed or removed.
CallbackMembers ==
    /\ agg.pc = "changed"
    /\ LET pushed == IF agg.kind = "CreateFile"
                     THEN changed_create(agg.self.members, agg.path, agg.outcome[1])
                     ELSE IF agg.kind = "RemoveFile"
                     THEN changed_remove(agg.self.members, agg.path)
                     ELSE agg.self.members
       IN  agg' = [agg EXCEPT !.pc = "rebuild", !.self.members = pushed,
                              !.outcome = <<agg.self>> \o agg.outcome]
    /\ UNCHANGED <<sv, rq, h5>>

\* changed(), the rest: sort, DAS and DDS, as far as it gets.
CallbackRebuild ==
    /\ agg.pc = "rebuild"
    /\ LET r == changed(agg.outcome[1], agg.rank, agg.kind, agg.path,
                        agg.outcome[2], agg.outcome[3], agg.outcome[4])
       IN  agg' = [agg EXCEPT !.pc = r.result, !.self = r.self, !.outcome = <<>>]
    /\ UNCHANGED <<sv, rq, h5>>

\* changed() returned Ok: the callback returns and the guard is dropped.
CallbackReturn ==
    /\ agg.pc = "Ok"
    /\ agg' = [agg EXCEPT !.pc = "wait", !.writer = FALSE]
    /\ UNCHANGED <<sv, rq, h5>>

\* changed() returned an error or hit unimplemented!: expect() panics. The
\* thread of the watcher unwinds and drops the guard, or the build aborts
\* the process on a panic.
CallbackPanic ==
    /\ agg.pc \in {"Err", "panic"}
    /\ \/ agg' = [agg EXCEPT !.pc = "unwound", !.writer = FALSE]
       \/ agg' = [agg EXCEPT !.pc = "aborted", !.request = "aborted"]
    /\ UNCHANGED <<sv, rq, h5>>

\* A request takes the lock for reading: granted when no writer holds it.
RequestRead ==
    /\ agg.request = "idle" /\ agg.pc /= "aborted"
    /\ ~agg.writer
    /\ agg' = [agg EXCEPT !.request = "reading", !.readers = @ + 1]
    /\ UNCHANGED <<sv, rq, h5>>

\* The request looks at the aggregate.
RequestObserve ==
    /\ agg.request = "reading"
    /\ agg' = [agg EXCEPT !.request = "observed", !.seen = <<agg.self>>]
    /\ UNCHANGED <<sv, rq, h5>>

\* The request releases the lock.
RequestRelease ==
    /\ agg.request = "observed"
    /\ agg' = [agg EXCEPT !.request = "idle", !.readers = @ - 1, !.seen = <<>>]
    /\ UNCHANGED <<sv, rq, h5>>

InitLock ==
    /\ agg \in { LockRequest(m, r) :
                   m \in WatchedMembers, r \in [Watched -> 0..MaxRankVal] }
    /\ sv = Idle
    /\ rq = Idle
    /\ h5 = Idle

NextLock ==
    \/ CallbackWrite
    \/ CallbackMembers
    \/ CallbackRebuild
    \/ CallbackReturn
    \/ CallbackPanic
    \/ RequestRead
    \/ RequestObserve
    \/ RequestRelease

SpecLock == InitLock /\ [][NextLock]_vars

\* The DAS and the DDS of the aggregate describe the members it has.
Described(self) ==
    /\ self.members /= <<>>
    /\ self.das = self.members[1]
    /\ self.dds = Sum([i \in 1..Len(self.members) |-> member_n(self.members[i])])

(***************************************************************************)
(* C27: the callback changes the aggregate only while it holds the lock    *)
(* for writing, and the aggregate a request sees under the lock for        *)
(* reading has the DAS and the DDS of the members it has.                  *)
(***************************************************************************)
C27_RequestSeesRebuiltAggregate ==
    /\ agg.pc \in {"changed", "rebuild", "Ok", "Err", "panic"}
          => agg.writer /\ agg.readers = 0
    /\ agg.request = "observed" => Described(agg.seen[1])

(***************************************************************************)
(* C28: in the data stream of a .dods request, a projection that has a     *)
(* hyperslab with a stride yields the stride error and after it no length  *)
(* prefix and no data buffer, once the stream is through with it.          *)
(***************************************************************************)
C28_StrideYieldsOnlyError ==
    rq.pc /= "idle" =>
       \A k \in 1..Len(rq.query.vs) :
          (has_stride(rq.query.vs[k]) /\ rq.status = 200 /\ Streamed(k))
          => /\ \E i \in 1..Len(ItemsOf(rq.body, k)) :
                   ItemsOf(rq.body, k)[i].kind = "err"
             /\ \A i \in 1..Len(ItemsOf(rq.body, k)) :
                   ItemsOf(rq.body, k)[i].kind \notin {"length", "data"}

(***************************************************************************)
(* stream_variable with a consumer that keeps polling: the stream is       *)
(* pulled until it ends.                                                   *)
(***************************************************************************)
\* Weak fairness of the poll, WF_vars(StreamVariableStep), written out with
\* the state predicate that ENABLED <<StreamVariableStep>>_vars is equal to:
\* a stream in its loop can be polled, and a poll appends a buffer or ends
\* the stream.
PollFairness ==
    []<>(sv.pc /= "loop") \/ []<><<StreamVariableStep>>_vars

\* The slabs of at most MaxChunk elements.
InitChunkLive ==
    /\ sv \in {r \in SvRequests : Product(r.counts) <= MaxChunk}
    /\ rq = Idle
    /\ h5 = Idle
    /\ agg = Idle

SpecChunkLive == InitChunkLive /\ [][NextChunk]_vars /\ PollFairness

\* The elements read so far.
ReadSoFar == Sum([k \in 1..Len(sv.out) |-> Len(sv.out[k])])

\* Every element of every buffer read lies inside the slab.
InsideSlab ==
    \A k \in 1..Len(sv.out) :
       /\ sv.out[k] /= <<>>
       /\ \A n \in 1..Len(sv.out[k]) :
             \A i \in 1..Len(sv.counts) :
                /\ sv.indices[i] <= sv.out[k][n][i]
                /\ sv.out[k][n][i] < sv.indices[i] + sv.counts[i]

\* The read of the next turn of the loop starts at indices + offset and has
\* the length min(jump, counts - offset) in each dimension.
NextRead ==
    LET jmp == jump(sv.counts, sv.CHUNK_SZ)
        start == [i \in 1..Len(sv.counts) |-> sv.indices[i] + sv.offset[i]]
        extent == [i \in 1..Len(sv.counts) |->
                      Min(jmp[i], sv.counts[i] - sv.offset[i])]
    IN  /\ \A i \in 1..Len(sv.counts) : sv.offset[i] < sv.counts[i]
        /\ stream_variable_poll(sv).item =
              [kind |-> "data", val |-> values_to(start, extent)]

WalkInv ==
    /\ InsideSlab
    /\ sv.out = <<>> => \A i \in 1..Len(sv.counts) : sv.offset[i] = 0
    /\ sv.pc = "loop" => NextRead /\ ReadSoFar < Product(sv.counts)
    /\ sv.pc = "done" => ReadSoFar = Product(sv.counts)

(***************************************************************************)
(* C29: the loop of stream_variable starts at offset zero; each read       *)
(* starts at indices + offset with the length min(jump, counts - offset)   *)
(* in each dimension and lies inside the slab; the loop ends, and when it  *)
(* has ended the lengths of the reads sum to the product of counts.        *)
(***************************************************************************)
C29_WalkTerminatesInsideSlab == []WalkInv /\ <>(sv.pc = "done")

\* A slab of three dimensions was read in more than two reads, one of them
\* clamped at the end of a dimension, and every element was read.
C29_Witness ==
    /\ sv.pc = "done"
    /\ Len(sv.counts) = 3
    /\ Len(sv.out) > 2
    /\ sv.indices[1] > 0
    /\ \E k \in 1..Len(sv.out) : Len(sv.out[k]) < Len(sv.out[1])
    /\ ReadSoFar = Product(sv.counts)

(***************************************************************************)
(* C30: no buffer stream_variable yields holds more than CHUNK_SZ          *)
(* elements; when the slab has CHUNK_SZ elements or more, the product of   *)
(* jump is more than half of CHUNK_SZ, and jump is 1 in every dimension    *)
(* outside of (before) a dimension that jump does not take whole.          *)
(***************************************************************************)
C30_ChunkWithinBudget ==
    sv.pc \in {"loop", "done"} =>
       LET jmp == jump(sv.counts, sv.CHUNK_SZ)
       IN  /\ \A k \in 1..Len(sv.out) : Len(sv.out[k]) <= sv.CHUNK_SZ
           /\ Product(jmp) <= sv.CHUNK_SZ
           /\ Product(sv.counts) >= sv.CHUNK_SZ
                 => /\ 2 * Product(jmp) > sv.CHUNK_SZ
                    /\ \A i, j \in 1..Len(jmp) :
                          (i < j /\ jmp[j] < sv.counts[j]) => jmp[i] = 1

\* A slab of three dimensions larger than the budget was streamed to its
\* end; the nominal chunk is less than the budget and takes a part of the
\* middle dimension.
C30_Witness ==
    /\ sv.pc = "done"
    /\ Len(sv.counts) = 3
    /\ Product(sv.counts) > sv.CHUNK_SZ
    /\ LET jmp == jump(sv.counts, sv.CHUNK_SZ)
       IN  /\ Product(jmp) < sv.CHUNK_SZ
           /\ 1 < jmp[2] /\ jmp[2] < sv.counts[2]
           /\ \E k \in 1..Len(sv.out) : Len(sv.out[k]) = Product(jmp)

(***************************************************************************)
(* C31: the walk over the members stops at the first member whose running  *)
(* offset member_start is at or beyond the end of the requested range      *)
(* (indices[0] + counts[0] <= member_start): that member is not read and   *)
(* the walk does not go on to a later member.                              *)
(***************************************************************************)
C31_WalkStopsAtEndOfRange ==
    [][(/\ agg.pc = "bytes" /\ agg.abc = "C"
        /\ agg.mi <= Len(agg.members)
        /\ agg.variable.indices[1] + agg.variable.counts[1] <= agg.member_start)
       => (agg'.mi = agg.mi /\ agg'.reads = agg.reads)]_vars

(***************************************************************************)
(* stream_variable called with indices and counts that may be omitted      *)
(* (Option<&[usize]>): None is <<>>, Some(v) is <<v>>.                      *)
(***************************************************************************)
MaxOmitRank == 2

\* counts.map(|c| c.to_vec()).unwrap_or_else(..): the length of every
\* dimension of the variable.
unwrap_counts(dims, counts) ==
    IF counts /= <<>> THEN counts[1] ELSE dims

\* indices.map(|i| i.to_vec()).unwrap_or_else(..): min(rank, 1) zeros.
unwrap_indices(dims, indices) ==
    IF indices /= <<>> THEN indices[1] ELSE [i \in 1..Min(Len(dims), 1) |-> 0]

\* The stream of a call with optional arguments, and the arguments kept
\* beside it.
OmitRequest(dims, indices, counts, chunk) ==
    stream_variable(dims, unwrap_indices(dims, indices),
                    unwrap_counts(dims, counts), chunk)
    @@ [given |-> [indices |-> indices, counts |-> counts]]

\* A variable of rank 0..MaxOmitRank, the whole of it or a slab that ends at
\* its last corner, with the indices, the counts, both or none given.
InitOmit ==
    /\ sv \in { OmitRequest(dims, indices, counts, ch) :
                  dims \in UNION {SeqsOf(1..MaxCount, n) : n \in 0..MaxOmitRank},
                  indices \in {<<>>} \cup
                      { << [i \in 1..n |-> 0] >> : n \in 0..MaxOmitRank } \cup
                      { << [i \in 1..n |-> 1] >> : n \in 1..MaxOmitRank },
                  counts \in {<<>>} \cup
                      { <<c>> : c \in UNION {SeqsOf(1..MaxCount, n) : n \in 0..MaxOmitRank} },
                  ch \in 1..MaxChunk }
    /\ \A o \in {sv.given.indices, sv.given.counts} :
          o /= <<>> => Len(o[1]) = Len(sv.dims)
    /\ \A i \in 1..Len(sv.dims) :
          (IF sv.given.indices = <<>> THEN 0 ELSE sv.given.indices[1][i])
          + sv.counts[i] <= sv.dims[i]
    /\ rq = Idle
    /\ h5 = Idle
    /\ agg = Idle

NextOmit == StreamVariableStep

SpecOmit == InitOmit /\ [][NextOmit]_vars

(***************************************************************************)
(* C32: the start vector and the count vector stream_variable passes to a  *)
(* read are as long as the variable's rank, also when the indices or the   *)
(* counts were omitted: omitted indices are start 0 in every dimension     *)
(* (plus the offset of the chunk), omitted counts are the full size of     *)
(* every dimension.                                                        *)
(***************************************************************************)
C32_ReadVectorsHaveRank ==
    sv.pc = "loop" =>
        LET start == mind(sv.indices, sv.offset)
            count == mjump(sv.offset, jump(sv.counts, sv.CHUNK_SZ), sv.counts)
        IN  /\ Len(start) = Len(sv.dims)
            /\ Len(count) = Len(sv.dims)
            /\ sv.given.indices = <<>> => start = sv.offset
            /\ sv.given.counts = <<>> => sv.counts = sv.dims

(***************************************************************************)
(* A variable stream and its consumer: the consumer of a stream_variable   *)
(* stream pulls or drops it, and NcDataset::dods (src/src/nc/mod.rs) builds *)
(* the body it hands to the consumer.  `reads` counts the reads of the     *)
(* source, `pulled` the items handed to the consumer, `held` the data      *)
(* buffers that were read and wait to be handed over.                      *)
(***************************************************************************)
Consumer == [pc |-> "pulling", pulled |-> 0, reads |-> 0, held |-> 0]

\* The consumer polls the stream: one turn of the loop, whose read fills the
\* buffer it yields.
ConsumerPull ==
    /\ rq.pc = "pulling"
    /\ sv.pc = "loop"
    /\ sv' = stream_variable_poll(sv).st
    /\ rq' = [rq EXCEPT !.pulled = @ + 1, !.reads = @ + 1]
    /\ UNCHANGED <<h5, agg>>

\* The consumer drops the stream, and with it the file handle it owns.
ConsumerDrop ==
    /\ rq.pc = "pulling"
    /\ sv' = Idle
    /\ rq' = [rq EXCEPT !.pc = "dropped"]
    /\ UNCHANGED <<h5, agg>>

\* dods::var_xdr(filename, v): the variable v of the file, read whole and
\* packed.
var_xdr(v) == pack(values_to([i \in 1..Len(nc_dims(v)) |-> 0], nc_dims(v)))

NcQueries == UNION {SeqsOf(NcVariables, n) : n \in 1..MaxProj}

NcDodsRequest(query) ==
    [pc |-> "dods", query |-> query, pulled |-> 0, reads |-> 0, held |-> 0,
     s |-> <<>>, body |-> <<>>]

\* NcDataset::dods: the DDS, every variable of the query read and collected
\* in `data`, and the stream s of three items wrapped in the body.
NcDatasetDods ==
    /\ rq.pc = "dods"
    /\ LET data == Flatten([k \in 1..Len(rq.query) |-> var_xdr(rq.query[k])])
       IN  rq' = [rq EXCEPT
                    !.reads = Len(rq.query),
                    !.held = Len(rq.query),
                    !.s = <<Item("dds", 0, rq.query), Item("separator", 0, <<>>),
                            Item("data", 0, data)>>,
                    !.pc = "body"]
    /\ UNCHANGED <<sv, h5, agg>>

\* The consumer of the body pulls the next item of s.
NcBodyPull ==
    /\ rq.pc = "body"
    /\ IF rq.pulled = Len(rq.s)
       THEN rq' = [rq EXCEPT !.pc = "done"]
       ELSE rq' = [rq EXCEPT
                     !.pulled = @ + 1,
                     !.body = Append(@, rq.s[rq.pulled + 1]),
                     !.held = IF rq.s[rq.pulled + 1].kind = "data" THEN 0 ELSE @]
    /\ UNCHANGED <<sv, h5, agg>>

\* The consumer of the body drops it.
NcBodyDrop ==
    /\ rq.pc = "body"
    /\ rq' = [rq EXCEPT !.pc = "dropped", !.held = 0]
    /\ UNCHANGED <<sv, h5, agg>>

InitCold ==
    /\ \/ sv \in SvRequests /\ rq = Consumer
       \/ sv = Idle /\ rq \in {NcDodsRequest(q) : q \in NcQueries}
    /\ h5 = Idle
    /\ agg = Idle

NextCold ==
    \/ ConsumerPull
    \/ ConsumerDrop
    \/ NcDatasetDods
    \/ NcBodyPull
    \/ NcBodyDrop

SpecCold == InitCold /\ [][NextCold]_vars

(***************************************************************************)
(* C33: a variable stream is a cold producer.  No read of the source       *)
(* happens before the consumer's first pull and the read of buffer k+1     *)
(* happens only after buffer k was handed over: there are never more reads *)
(* than pulls, and never more than one data buffer is held.  Once the      *)
(* consumer has dropped the stream no read follows.                        *)
(***************************************************************************)
C33_ColdProducer ==
    /\ [](rq.reads <= rq.pulled /\ rq.held <= 1)
    /\ [][rq.pc = "dropped" => rq'.reads = rq.reads]_vars

\* The number of data elements in the items of the aggregate's stream: the
\* coordinate cache delivers bytes, dsz to an element.
DataElements ==
    LET n == Sum([k \in 1..Len(agg.out) |->
                    IF agg.out[k].kind = "data" THEN Len(agg.out[k].val) ELSE 0])
    IN  IF agg.abc = "A" THEN n \div agg.coordinates.dsz ELSE n

(***************************************************************************)
(* C34: an aggregate's data stream that has ended without an error, for a  *)
(* variable with dimensions whose element count fits the length word,      *)
(* starts with the length word of that count and carries as many data      *)
(* elements after it; a request that runs past the joined dimension is     *)
(* not answered with fewer elements than announced.                        *)
(***************************************************************************)
C34_EmittedEqualsAnnounced ==
    (/\ agg.pc = "done" /\ agg.result = "Ok" /\ AggNoError
     /\ ~is_scalar(agg.variable)
     /\ len(agg.variable) <= U32_MAX)
    => /\ agg.out[1] = xdr_length(len(agg.variable))
       /\ DataElements = len(agg.variable)

(***************************************************************************)
(* C35: whenever a request holds the lock for reading, the aggregate it    *)
(* is served from has at least one member, whatever file events the        *)
(* callback handled before: members[0], which dds() and dods() use,        *)
(* exists.                                                                 *)
(***************************************************************************)
C35_MountedAggregateHasMember ==
    agg.request \in {"reading", "observed"} => agg.self.members /= <<>>

(***************************************************************************)
(* C36: changed() is all or nothing: when it does not return Ok, the       *)
(* members, the DAS, the DDS and dim_n of the aggregate are what they were *)
(* before the event.                                                       *)
(***************************************************************************)
C36_ChangedIsAllOrNothing ==
    [][agg'.pc = "panicked" => agg'.self = agg.self]_vars

(***************************************************************************)
(* C37: an event that neither adds a member (a file-create of a new file   *)
(* that opens) nor drops one (a file-remove of a member's path) returns Ok *)
(* and leaves the members, the DAS, the DDS and dim_n unchanged: any other *)
(* kind of event, a folder create or remove, a create of a file that is a  *)
(* member or cannot be opened, a remove of a path that is no member.       *)
(***************************************************************************)
C37_OtherEventsChangeNothing ==
    [][(\/ agg'.kind \notin {"CreateFile", "RemoveFile"}
        \/ /\ agg'.kind = "CreateFile"
           /\ Len(agg'.self.members) = Len(agg.self.members)
        \/ /\ agg'.kind = "RemoveFile"
           /\ agg'.path \notin Range(agg.self.members))
       => (agg'.pc = "opened" /\ agg'.self = agg.self)]_vars

(***************************************************************************)
(* C38: once the stream of an aggregated variable has yielded an error     *)
(* item it yields no data item any more: the error is the last item, and   *)
(* no bytes of a later member follow it.                                   *)
(***************************************************************************)
C38_ErrorEndsStream ==
    agg.pc \in {"bytes", "done"} =>
       \A i, j \in 1..Len(agg.out) :
          (agg.out[i].kind = "err" /\ i < j) => agg.out[j].kind /= "data"

(***************************************************************************)
(* C39: every data buffer the stream of an Hdf5Dataset variable emits is   *)
(* read while the file's mtime is still the one recorded at open, also     *)
(* when the file is modified after the stream was constructed: no bytes    *)
(* read from the modified file are sent.                                   *)
(***************************************************************************)
C39_NoByteOfModifiedFile ==
    [][(h5.pc = "bytes" /\ h5'.out /= h5.out) => h5.mtime = h5.modified]_vars

(***************************************************************************)
(* An Hdf5Dataset over the life of its file: the file is modified, the     *)
(* dataset is dropped and opened again, in the same or a later process,    *)
(* on the persistent index store.  A content of the file is a version      *)
(* number, its mtime changes with it, and an index is known by the version *)
(* it was built from.  None is <<>>, Some(x) is <<x>>.                      *)
(***************************************************************************)
MaxVersions == 3
MaxReopens == 3

ReopenRequest ==
    [pc |-> "closed", version |-> 0, db |-> <<>>, modified |-> 0,
     opens |-> 0, read |-> <<>>]

\* idx::Index::index_file on the file as it is now.
index_file(version) == version

\* Hdf5Dataset::open: the mtime is recorded; the file is indexed and the
\* index inserted when the store has nothing under the key.  Indexing may
\* fail.
ReopenOpen ==
    /\ h5.pc = "closed"
    /\ h5.opens < MaxReopens
    /\ \/ h5' = [h5 EXCEPT
                   !.pc = "open",
                   !.modified = h5.version,
                   !.db = IF h5.db = <<>> THEN <<index_file(h5.version)>> ELSE @,
                   !.opens = @ + 1,
                   !.read = <<>>]
       \/ /\ h5.db = <<>>
          /\ h5' = [h5 EXCEPT !.pc = "closed", !.read = <<>>]
    /\ UNCHANGED <<sv, rq, agg>>

\* The file is modified on disk.
ReopenModify ==
    /\ h5.pc \in {"closed", "open"}
    /\ h5.version < MaxVersions
    /\ h5' = [h5 EXCEPT !.version = @ + 1]
    /\ UNCHANGED <<sv, rq, agg>>

\* The dataset is dropped; the store keeps what it holds.
ReopenDrop ==
    /\ h5.pc = "open"
    /\ h5' = [h5 EXCEPT !.pc = "closed"]
    /\ UNCHANGED <<sv, rq, agg>>

\* Hdf5Dataset::variable: the staleness check, then the index fetched from
\* the store serves the read of the file.
ReopenVariable ==
    /\ h5.pc = "open"
    /\ IF stale(h5.modified, h5.version)
       THEN h5' = [h5 EXCEPT !.read = <<[result |-> "Stale"]>>]
       ELSE h5' = [h5 EXCEPT !.read = <<[result |-> "Ok", index |-> h5.db[1],
                                         file |-> h5.version,
                                         opened |-> h5.modified]>>]
    /\ UNCHANGED <<sv, rq, agg>>

InitReopen ==
    /\ h5 = ReopenRequest
    /\ sv = Idle
    /\ rq = Idle
    /\ agg = Idle

NextReopen ==
    \/ ReopenOpen
    \/ ReopenModify
    \/ ReopenDrop
    \/ ReopenVariable

SpecReopen == InitReopen /\ [][NextReopen]_vars

(***************************************************************************)
(* C40: the index that serves a read of a dataset describes the file as it *)
(* was when the dataset was opened: after the file was modified and the    *)
(* dataset dropped and opened again, a read uses an index built from the   *)
(* modified file and never the one stored for the previous content.        *)
(***************************************************************************)
C40_IndexIsOfOpenedFile ==
    (h5.read /= <<>> /\ h5.read[1].result = "Ok")
    => h5.read[1].index = h5.read[1].opened

====
